---- MODULE Spec2Model ----
(***************************************************************************)
(* Conversation state and scheduling core of the WhatsApp agent:           *)
(*   - the meeting reminder scheduler (calendar/reminders/scheduler.ts),   *)
(*   - the per-user message buffer (buffer/bufferManager),                 *)
(*   - the conversation history store (conversation/historyManager.ts).    *)
(* Time of day is counted in whole minutes; a calendar day is 1440 of      *)
(* them, and a date is a day index.                                        *)
(***************************************************************************)
EXTENDS Integers, Sequences, FiniteSets, TLC

VARIABLES
    \* ---- reminder scheduler ----
    clock,          \* wall clock (Israel time), minutes since day 0 00:00
    tickDue,        \* the 60 s interval elapsed and its callback has not run yet
    saves,          \* number of POST /calendar/meeting calls so far
    meetingStore,   \* Redis value under meeting:{phone}
    optOutStore,    \* Redis key customer:{phone}.optOut is present
    tpc,            \* where each running checkMeetings() call stands
    tmeeting,       \* its parsed copy of the meeting
    tnow,           \* the value of getNowInIsrael() it took
    tupdated,       \* its local "updated"
    sentCount,      \* per item and trigger: reminders delivered (0, 1, many)
    everSet,        \* per trigger: the stored flag of the current item has been true
    treadAfter,     \* per tick and trigger: everSet when the tick read the item
    meetingTtl,     \* the key meeting:{phone} carries an expiry
    toptAtSend,     \* per tick: the opt-out state when its running send began
                    \* ("unread" if the tick's isOptedOut read had thrown)
    missed,         \* how the day-of reminder last went unsent while due
    tsendAfter,     \* per tick: missed when its running day-of send began
    \* ---- message buffer ----
    bufEntry,       \* per user: the Map holds an entry {messages, timer}
    bufQueue,       \* per user: the entry's messages, in arrival order
    bufTimers,      \* per user: number of live debounce timers
    bufWindows,     \* per user: number of windows (timers) started so far
    admitLog,       \* per user: every admitted item with the window it joined
    nextItem,       \* id of the next inbound item
    batches,        \* per user: the batches handed to flushConversation
    flushing,       \* per user: flushConversation calls still running
    \* ---- conversation history of one phone ----
    redisEnabled,   \* getRedis() returns a client
    redisChat,      \* Redis value and TTL (days) under chat:{phone}
    memChat,        \* conversationHistory.get(phone), the in-process fallback
    fpc,            \* where the running flushConversation stands
    fqueue,         \* messages the flush still has to pass to addToHistory
    flocal,         \* addToHistory's local `history`, pushed and trimmed
    falias,         \* that `history` came from the fallback (getHistory's catch)
    turns,          \* flushes started so far
    nextMsg,        \* id of the next message
    mpc,            \* where the running addMeetingToHistory stands
    mlocal,         \* its local `history`, with the system message pushed
    mttl,           \* the value redis.ttl gave it
    notes,          \* addMeetingToHistory calls so far
    turnReadFrom,   \* store that served the flush's getHistory
    turnLanded,     \* stores that received appends of the current flush
    overwrote,      \* a history taken from the fallback replaced a Redis history
    appended,       \* every message passed to addToHistory, in call order
    clean,          \* no Redis error, expiry or meeting note so far
    \* ---- a caller of getHistory ----
    lastRead,       \* what its last getHistory call gave it
    \* ---- inbound messages of one user (processMessage) ----
    ipc,            \* per message: where its processMessage call stands
    imsg,           \* per message: it has text, it has audio or image content
    ifound,         \* per message: isOptedOut answered true for it
    icleared,       \* per message: how clearOptOut's DEL ended for it
    idet,           \* per message: what detectOptOut returned for its text
    isetCalls,      \* per message: setOptOut calls made for it
    iacks,          \* per message: acknowledgment sends made for it
    iitem,          \* per message: the buffer item it became (0: none)
    \* ---- webhook deduplication (processWebhook) ----
    dnow,           \* time since observation began, in units of 30 s
    processedMessages, \* the Set of message ids
    deleteTimers,   \* pending setTimeout deletions: [id, due]
    sweepAt,        \* when the hourly setInterval fires next
    dlastAdmit,     \* per id: when it was last let through (NoTime: never)
    dclearedSince,  \* per id: the Set was cleared since it was last let through
    dcall,          \* the last processWebhook call and what it found
    dcalls,         \* processWebhook calls so far
    \* ---- one outbound send (sendTextMessage / sendImageMessage) ----
    spc,            \* where the send stands
    skind,          \* which of the two functions was called
    retryCount,     \* the retryCount argument of the running invocation
    slog,           \* what the send has awaited so far, in order
    sresult,        \* what the outermost call returned
    \* ---- flushes of one user: customer profile and reply ----
    profileStore,   \* Redis key customer:{phone} holds a profile
    profileWrites,  \* SETEX calls that stored a profile (0, 1, many)
    qchat,          \* the stored conversation is non-empty: in Redis, in the fallback map
    qpc,            \* per flush: where flushConversation stands
    qhistEmpty,     \* per flush: history.length === 0 for what getHistory gave it
    qanswered,      \* per flush: askOpenAI gave it a response
    qfail,          \* per flush: how it failed, if it did
    qsent,          \* per flush: the send it issued to the user
    \* ---- one detectOptOut call ----
    opc,            \* where the call stands
    otext,          \* its `message` argument, a sequence of characters
    oai,            \* what askOpenAI gave it
    ores,           \* what it returned
    \* ---- what is sent to one user besides the opt-out acknowledgment ----
    outbox,         \* every such send, with the opt-out record at that moment
    \* ---- processMessage calls of processWebhook ----
    dfailed,        \* admissions (id, time) whose processMessage has thrown
    \* ---- one checkMeetings loop over several stored items ----
    kpc,            \* where the running checkMeetings() call stands
    kqueue,         \* keys its for loop has still to visit
    kdone,          \* per key: how its iteration of the current tick ended
    klog            \* how each finished tick ended, in order

schedVars == <<clock, tickDue, saves, meetingStore, optOutStore, tpc, tmeeting,
               tnow, tupdated, sentCount, everSet, treadAfter, meetingTtl,
               toptAtSend, missed, tsendAfter>>

bufVars == <<bufEntry, bufQueue, bufTimers, bufWindows, admitLog, nextItem,
             batches, flushing>>

histVars == <<redisEnabled, redisChat, memChat, fpc, fqueue, flocal, falias, turns,
              nextMsg, mpc, mlocal, mttl, notes, turnReadFrom, turnLanded,
              overwrote, appended, clean>>

readVars == <<lastRead>>

inVars == <<ipc, imsg, ifound, icleared, idet, isetCalls, iacks, iitem>>

dedupVars == <<dnow, processedMessages, deleteTimers, sweepAt, dlastAdmit,
               dclearedSince, dcall, dcalls>>

sendVars == <<spc, skind, retryCount, slog, sresult>>

turnVars == <<profileStore, profileWrites, qchat, qpc, qhistEmpty, qanswered, qfail,
              qsent>>

detectVars == <<opc, otext, oai, ores>>

gateVars == <<outbox>>

failVars == <<dfailed>>

loopVars == <<kpc, kqueue, kdone, klog>>

extraVars == <<gateVars, failVars, loopVars>>

\* The scheduler's state without the opt-out record.
schedRest == <<clock, tickDue, saves, meetingStore, tpc, tmeeting, tnow, tupdated,
               sentCount, everSet, treadAfter, meetingTtl, toptAtSend, missed,
               tsendAfter>>

nonSchedVars == <<bufVars, histVars, readVars, inVars, dedupVars, sendVars, turnVars,
                   detectVars, extraVars>>

nonBufVars == <<schedVars, histVars, readVars, inVars, dedupVars, sendVars, turnVars,
                   detectVars, extraVars>>

nonHistVars == <<schedVars, bufVars, readVars, inVars, dedupVars, sendVars, turnVars,
                   detectVars, extraVars>>

nonReadVars == <<schedVars, bufVars, histVars, inVars, dedupVars, sendVars, turnVars,
                   detectVars, extraVars>>

\* What processMessage leaves alone whatever it does.
nonInVars == <<schedRest, histVars, readVars, dedupVars, sendVars, turnVars,
                   detectVars, extraVars>>

nonDedupVars == <<schedVars, bufVars, histVars, readVars, inVars, sendVars, turnVars,
                   detectVars, extraVars>>

nonSendVars == <<schedVars, bufVars, histVars, readVars, inVars, dedupVars, turnVars,
                   detectVars, extraVars>>

nonTurnVars == <<schedVars, bufVars, histVars, readVars, inVars, dedupVars, sendVars,
                   detectVars, extraVars>>

nonDetectVars == <<schedVars, bufVars, histVars, readVars, inVars, dedupVars, sendVars,
                   turnVars, extraVars>>

vars == <<schedVars, bufVars, histVars, readVars, inVars, dedupVars, sendVars, turnVars,
          detectVars, extraVars>>

(***************************************************************************)
(* Configuration                                                           *)
(***************************************************************************)
MinutesPerDay == 24 * 60

reminderDayOfMeetingTime == 9 * 60

reminderMinutesBefore == 45

reminderWindowMinutes == 3

\* Model bounds
MaxElapsed == 8

MaxAdmits == 4

MaxTurns == 1

\* MAX_HISTORY_MESSAGES, set small
maxHistoryMessages == 2

\* Sizes of the batches the buffer hands over
BatchSizes == {1, 2}

Ticks == {"t1", "t2"}

Users == {"u1", "u2"}

Triggers == {"day", "before"}

\* The clock starts just before the day-of window opens.
ClockStart == reminderDayOfMeetingTime - reminderWindowMinutes - 1

\* Meeting time offered to POST /calendar/meeting: its lead-time window
\* (09:00 to 09:03) lies inside the day-of window, and the clock runs from
\* four minutes before it to one minute after it.
MeetingTimes == {9 * 60 + 45}

MeetingDates == {0}

\* createdAt of the meetings POST /calendar/meeting saves
MeetingIds == {1}

NoMiss == "no"

NoFlags == [sentDayReminder |-> FALSE, sentBeforeReminder |-> FALSE]

NoMeeting == [exists |-> FALSE, createdAt |-> 0, date |-> 0, time |-> 0, flags |-> NoFlags]

Bump(n) == IF n < 2 THEN n + 1 ELSE 2

\* Inbound messages in flight, all from the same user.
Msgs == {"m1", "m2"}

Sender == "u1"

Confidences == {"high", "medium", "low"}

NoDetection == [ran |-> FALSE, isOptOut |-> FALSE, confidence |-> "low"]

NoContent == [text |-> FALSE, media |-> FALSE]

\* MESSAGE_CACHE_TTL (60000 ms) and the hourly sweep (3600000 ms), in units
\* of 30 s
MESSAGE_CACHE_TTL == 2

SweepInterval == 120

\* MAX_PROCESSED_MESSAGES, set small
MAX_PROCESSED_MESSAGES == 2

\* How long the deduplication is observed, in units of 30 s
MaxDedupTime == 3

\* Webhook calls observed
MaxWebhooks == 4

\* Message ids of the webhook payloads: enough distinct ones to fill the Set
MessageIds == 1..(MAX_PROCESSED_MESSAGES + 1)

NoTime == -1

\* sendMessage.ts, in milliseconds
MAX_RETRIES == 3

RETRY_DELAY_MS == 5000

minResponseDelayMs == 1500

maxResponseDelayMs == 3000

\* Delays addHumanDelay can pick: the two ends of its range and the middle
HumanDelays ==
    {minResponseDelayMs, (minResponseDelayMs + maxResponseDelayMs) \div 2,
     maxResponseDelayMs}

\* How the POST to /send-message can end: success: true, success: false,
\* HTTP 429, any other error (other status, timeout, network)
Outcomes == {"success", "rejected", "429", "error"}

SendKinds == {"text", "image"}

\* flushConversation calls of one user that can be running at once
Flushes == {"f1", "f2"}

NoConversation == [redis |-> FALSE, mem |-> FALSE]

\* Pieces the message texts are made of: a high-confidence keyword in lower
\* and in upper case, a medium-confidence keyword, two words of 8 and 9
\* letters that hold no keyword, and a blank.
Pieces ==
    [stop |-> <<"s", "t", "o", "p">>,
     STOP |-> <<"S", "T", "O", "P">>,
     dai |-> <<"d", "a", "i">>,
     word8 |-> <<"x", "x", "x", "x", "x", "x", "x", "x">>,
     word9 |-> <<"y", "y", "y", "y", "y", "y", "y", "y", "y">>,
     blank |-> <<" ">>]

\* Pieces per message text
MaxPieces == 3

\* highConfidenceKeywords and mediumConfidenceKeywords, one keyword each
highConfidenceKeywords == <<Pieces.stop>>

mediumConfidenceKeywords == <<Pieces.dai>>

\* lowerMessage.length < 20
MediumMaxLength == 20

NoAnswer == [kind |-> "none", isOptOut |-> FALSE, confidence |-> "low"]

NoResult == [called |-> FALSE, raised |-> FALSE, fallback |-> FALSE,
             isOptOut |-> FALSE, confidence |-> "low"]

\* The keys redis.keys("meeting:*") lists, in the order it lists them.
StoredKeys == <<"k1", "k2", "k3">>

MeetingKeys == {StoredKeys[i] : i \in 1..Len(StoredKeys)}

\* Bound on the ticks of a run of the loop.
MaxLoopTicks == 2

NoCall == [called |-> FALSE, id |-> 0, admitted |-> FALSE, prev |-> NoTime,
           at |-> 0, cleared |-> FALSE, sizeBefore |-> 0, sizeAfter |-> 0]

(***************************************************************************)
(* Time helpers (calendar/reminders/timeUtils)                             *)
(***************************************************************************)
Abs(x) == IF x < 0 THEN -x ELSE x

parseTimeToDate(time, date) == date * MinutesPerDay + time

diffInMinutes(a, b) == a - b

formatDateYMD(now) == now \div MinutesPerDay

(***************************************************************************)
(* processMeeting's two trigger conditions                                 *)
(***************************************************************************)
\* Mutant: the window excludes its two end minutes.
DayDueOpen(m, now) ==
    /\ formatDateYMD(now) = m.date
    /\ Abs(diffInMinutes(now, parseTimeToDate(reminderDayOfMeetingTime, m.date)))
          < reminderWindowMinutes
    /\ ~m.flags.sentDayReminder

DayDue(m, now) ==
    /\ formatDateYMD(now) = m.date
    /\ Abs(diffInMinutes(now, parseTimeToDate(reminderDayOfMeetingTime, m.date)))
          <= reminderWindowMinutes
    /\ ~m.flags.sentDayReminder

\* Mutant: the range excludes its two end minutes.
BeforeDueOpen(m, now) ==
    LET diffMinutes == diffInMinutes(parseTimeToDate(m.time, m.date), now)
    IN  /\ diffMinutes < reminderMinutesBefore
        /\ diffMinutes > reminderMinutesBefore - reminderWindowMinutes
        /\ ~m.flags.sentBeforeReminder

BeforeDue(m, now) ==
    LET diffMinutes == diffInMinutes(parseTimeToDate(m.time, m.date), now)
    IN  /\ diffMinutes <= reminderMinutesBefore
        /\ diffMinutes >= reminderMinutesBefore - reminderWindowMinutes
        /\ ~m.flags.sentBeforeReminder

\* Where processMeeting goes once the day-of block is over.
AfterDay(m, now, updated) ==
    IF BeforeDue(m, now) THEN "sendBefore"
    ELSE IF updated THEN "set" ELSE "idle"

\* Mutant: the answer of isOptedOut is ignored.
AfterOptOutCheckIgnored(opted, m, now) ==
    IF DayDue(m, now) THEN "sendDay" ELSE AfterDay(m, now, FALSE)

\* Where processMeeting goes once isOptedOut has answered.
AfterOptOutCheck(opted, m, now) ==
    IF opted THEN "idle"
    ELSE IF DayDue(m, now) THEN "sendDay" ELSE AfterDay(m, now, FALSE)

(***************************************************************************)
(* Initial state: the process has just started, Redis holds nothing.       *)
(***************************************************************************)
InitSchedWith(stored) ==
    /\ clock = ClockStart
    /\ tickDue = TRUE
    /\ saves = IF stored.exists THEN 1 ELSE 0
    /\ meetingStore = stored
    /\ optOutStore = FALSE
    /\ tpc = [p \in Ticks |-> "idle"]
    /\ tmeeting = [p \in Ticks |-> NoMeeting]
    /\ tnow = [p \in Ticks |-> 0]
    /\ tupdated = [p \in Ticks |-> FALSE]
    /\ sentCount = [g \in MeetingIds |-> [t \in Triggers |-> 0]]
    /\ everSet = [t \in Triggers |-> FALSE]
    /\ treadAfter = [p \in Ticks |-> [t \in Triggers |-> FALSE]]
    /\ meetingTtl = stored.exists
    /\ toptAtSend = [p \in Ticks |-> "no"]
    /\ missed = NoMiss
    /\ tsendAfter = [p \in Ticks |-> NoMiss]

InitSched == InitSchedWith(NoMeeting)

\* A meeting saved before the day begins, no reminder sent yet.
StoredMeeting ==
    [exists |-> TRUE, createdAt |-> 1, date |-> CHOOSE d \in MeetingDates : TRUE,
     time |-> CHOOSE t \in MeetingTimes : TRUE, flags |-> NoFlags]

InitBuf ==
    /\ bufEntry = [u \in Users |-> FALSE]
    /\ bufQueue = [u \in Users |-> <<>>]
    /\ bufTimers = [u \in Users |-> 0]
    /\ bufWindows = [u \in Users |-> 0]
    /\ admitLog = [u \in Users |-> <<>>]
    /\ nextItem = 1
    /\ batches = [u \in Users |-> <<>>]
    /\ flushing = [u \in Users |-> 0]

NoChat == [exists |-> FALSE, msgs |-> <<>>, ttl |-> "none"]

NoMem == [exists |-> FALSE, msgs |-> <<>>]

InitIn ==
    /\ ipc = [m \in Msgs |-> "new"]
    /\ imsg = [m \in Msgs |-> NoContent]
    /\ ifound = [m \in Msgs |-> FALSE]
    /\ icleared = [m \in Msgs |-> "no"]
    /\ idet = [m \in Msgs |-> NoDetection]
    /\ isetCalls = [m \in Msgs |-> 0]
    /\ iacks = [m \in Msgs |-> 0]
    /\ iitem = [m \in Msgs |-> 0]

NoRead == [called |-> FALSE, failed |-> FALSE, raised |-> FALSE, history |-> <<>>]

InitRead == lastRead = NoRead

InitHistWith(enabled, chat, mem) ==
    /\ redisEnabled = enabled
    /\ redisChat = chat
    /\ memChat = mem
    /\ fpc = "idle"
    /\ fqueue = <<>>
    /\ flocal = <<>>
    /\ falias = FALSE
    /\ turns = 0
    /\ nextMsg = 1
    /\ mpc = "idle"
    /\ mlocal = <<>>
    /\ mttl = "none"
    /\ notes = 0
    /\ turnReadFrom = "none"
    /\ turnLanded = {}
    /\ overwrote = FALSE
    /\ appended = <<>>
    /\ clean = TRUE

InitHist(enabled) == InitHistWith(enabled, NoChat, NoMem)

\* The process has been up for a while without traffic: the Set is empty and
\* the hourly sweep is due at some moment of its interval (all the moments
\* after the observed time are alike).
InitDedup ==
    /\ dnow = 0
    /\ processedMessages = {}
    /\ deleteTimers = {}
    /\ sweepAt \in 1..(MaxDedupTime + 1)
    /\ dlastAdmit = [id \in MessageIds |-> NoTime]
    /\ dclearedSince = [id \in MessageIds |-> FALSE]
    /\ dcall = NoCall
    /\ dcalls = 0

InitSend ==
    /\ spc = "idle"
    /\ skind = "text"
    /\ retryCount = 0
    /\ slog = <<>>
    /\ sresult = "none"

\* A user the agent has not talked to yet.
InitTurn ==
    /\ profileStore = FALSE
    /\ profileWrites = 0
    /\ qchat = NoConversation
    /\ qpc = [f \in Flushes |-> "idle"]
    /\ qhistEmpty = [f \in Flushes |-> FALSE]
    /\ qanswered = [f \in Flushes |-> FALSE]
    /\ qfail = [f \in Flushes |-> "no"]
    /\ qsent = [f \in Flushes |-> "none"]

InitDetect ==
    /\ opc = "idle"
    /\ otext = <<>>
    /\ oai = NoAnswer
    /\ ores = NoResult

\* Nothing has been sent to the user yet.
InitGate == outbox = {}

InitFail == dfailed = {}

\* The scheduler is started and no tick has run yet.
InitLoop ==
    /\ kpc = "idle"
    /\ kqueue = <<>>
    /\ kdone = [k \in MeetingKeys |-> "none"]
    /\ klog = <<>>

\* The modules whose state the runs below do not touch.
InitQuiet ==
    /\ sweepAt = MaxDedupTime + 1
    /\ InitSend /\ InitTurn /\ InitDetect /\ InitGate /\ InitFail /\ InitLoop

Init == InitSched /\ InitBuf /\ InitHist(TRUE) /\ InitRead /\ InitIn /\ InitDedup /\ InitQuiet

(***************************************************************************)
(* Environment of the scheduler                                            *)
(***************************************************************************)
\* One minute passes; the setInterval callback of the minute before has run.
Advance ==
    /\ ~tickDue
    /\ clock < ClockStart + MaxElapsed
    /\ clock' = clock + 1
    /\ tickDue' = TRUE
    /\ UNCHANGED <<saves, meetingStore, optOutStore, tpc, tmeeting, tnow,
                   tupdated, sentCount, everSet, treadAfter, meetingTtl, toptAtSend,
                   missed, tsendAfter>>
    /\ UNCHANGED nonSchedVars

\* saveMeeting: SETEX meeting:{phone} with fresh flags.
SaveMeeting(date, time) ==
    /\ saves + 1 \in MeetingIds
    /\ saves' = saves + 1
    /\ meetingStore' = [exists |-> TRUE, createdAt |-> saves + 1, date |-> date,
                        time |-> time, flags |-> NoFlags]
    /\ everSet' = [t \in Triggers |-> FALSE]
    /\ meetingTtl' = TRUE
    /\ missed' = NoMiss
    /\ UNCHANGED <<clock, tickDue, optOutStore, tpc, tmeeting, tnow, tupdated,
                   sentCount, treadAfter, toptAtSend, tsendAfter>>
    /\ UNCHANGED nonSchedVars

\* setOptOut / clearOptOut, called by the inbound pipeline.
SetOptOut ==
    /\ ~optOutStore
    /\ optOutStore' = TRUE
    /\ UNCHANGED <<clock, tickDue, saves, meetingStore, tpc, tmeeting, tnow,
                   tupdated, sentCount, everSet, treadAfter, meetingTtl, toptAtSend,
                   missed, tsendAfter>>
    /\ UNCHANGED nonSchedVars

ClearOptOut ==
    /\ optOutStore
    /\ optOutStore' = FALSE
    /\ UNCHANGED <<clock, tickDue, saves, meetingStore, tpc, tmeeting, tnow,
                   tupdated, sentCount, everSet, treadAfter, meetingTtl, toptAtSend,
                   missed, tsendAfter>>
    /\ UNCHANGED nonSchedVars

(***************************************************************************)
(* checkMeetings / processMeeting, one action per suspension point         *)
(***************************************************************************)
\* The flags object processMeeting builds after a successful send.
FlagsAfterDaySend(flags) ==
    [sentDayReminder |-> TRUE, sentBeforeReminder |-> flags.sentBeforeReminder]

FlagsAfterBeforeSend(flags) ==
    [sentDayReminder |-> flags.sentDayReminder, sentBeforeReminder |-> TRUE]

\* Mutant: the flag is set whatever the send returned.
DayFlagsAlways(sent, flags) == FlagsAfterDaySend(flags)

\* meeting.flags after the day-of send returned `sent`.
DayFlags(sent, flags) == IF sent THEN FlagsAfterDaySend(flags) ELSE flags

\* Mutant: the lead-time flag is never set.
BeforeFlagsNever(sent, flags) == flags

\* meeting.flags after the lead-time send returned `sent`.
BeforeFlags(sent, flags) == IF sent THEN FlagsAfterBeforeSend(flags) ELSE flags

\* isOptedOut: the stored status, false when the read throws.
IsOptedOut(ok) == ok /\ optOutStore

\* The tick moves to `nxt` with its locals; a finished tick drops them.
Goto(p, nxt, m, now, updated, read) ==
    /\ tpc' = [tpc EXCEPT ![p] = nxt]
    /\ toptAtSend' = [toptAtSend EXCEPT ![p] =
                        IF nxt \notin {"sendDay", "sendBefore"} THEN "no"
                        ELSE IF ~read THEN "unread"
                        ELSE IF optOutStore THEN "yes" ELSE "no"]
    /\ tsendAfter' = [tsendAfter EXCEPT ![p] = IF nxt = "sendDay" THEN missed ELSE NoMiss]
    /\ IF nxt = "idle"
       THEN /\ tmeeting' = [tmeeting EXCEPT ![p] = NoMeeting]
            /\ tnow' = [tnow EXCEPT ![p] = 0]
            /\ tupdated' = [tupdated EXCEPT ![p] = FALSE]
            /\ treadAfter' = [treadAfter EXCEPT ![p] = [t \in Triggers |-> FALSE]]
       ELSE /\ tmeeting' = [tmeeting EXCEPT ![p] = m]
            /\ tnow' = [tnow EXCEPT ![p] = now]
            /\ tupdated' = [tupdated EXCEPT ![p] = updated]
            /\ UNCHANGED treadAfter

\* setInterval fires: checkMeetings() runs up to `await redis.keys`.
TickStart(p) ==
    /\ tickDue
    /\ tpc[p] = "idle"
    /\ tickDue' = FALSE
    /\ tpc' = [tpc EXCEPT ![p] = "keys"]
    /\ UNCHANGED <<clock, saves, meetingStore, optOutStore, tmeeting, tnow,
                   tupdated, sentCount, everSet, treadAfter, meetingTtl, toptAtSend,
                   missed, tsendAfter>>
    /\ UNCHANGED nonSchedVars

\* redis.keys("meeting:*") answers (or throws: the tick is over).
ListKeys(p, ok) ==
    /\ tpc[p] = "keys"
    /\ tpc' = [tpc EXCEPT ![p] = IF ok /\ meetingStore.exists THEN "get" ELSE "idle"]
    /\ UNCHANGED <<clock, tickDue, saves, meetingStore, optOutStore, tmeeting,
                   tnow, tupdated, sentCount, everSet, treadAfter, meetingTtl,
                   toptAtSend, missed, tsendAfter>>
    /\ UNCHANGED nonSchedVars

\* redis.get(key) answers; the tick parses its own copy and enters
\* processMeeting up to `await isOptedOut`.
ReadMeeting(p, ok) ==
    /\ tpc[p] = "get"
    /\ IF ok /\ meetingStore.exists
       THEN /\ tpc' = [tpc EXCEPT ![p] = "optout"]
            /\ tmeeting' = [tmeeting EXCEPT ![p] = meetingStore]
            /\ treadAfter' = [treadAfter EXCEPT ![p] = everSet]
       ELSE /\ tpc' = [tpc EXCEPT ![p] = "idle"]
            /\ UNCHANGED <<tmeeting, treadAfter>>
    /\ UNCHANGED <<clock, tickDue, saves, meetingStore, optOutStore, tnow,
                   tupdated, sentCount, everSet, meetingTtl, toptAtSend, missed,
                   tsendAfter>>
    /\ UNCHANGED nonSchedVars

\* isOptedOut answers (false on a Redis error); processMeeting takes `now`,
\* evaluates the day-of condition and runs up to its first send, if any.
CheckOptOut(p, ok) ==
    /\ tpc[p] = "optout"
    /\ Goto(p, AfterOptOutCheck(IsOptedOut(ok), tmeeting[p], clock), tmeeting[p],
            clock, FALSE, ok)
    /\ missed' = IF IsOptedOut(ok) /\ DayDue(tmeeting[p], clock)
                 THEN "optout"
                 ELSE missed
    /\ UNCHANGED <<clock, tickDue, saves, meetingStore, optOutStore, sentCount, everSet,
                   meetingTtl>>
    /\ UNCHANGED nonSchedVars

\* sendTextMessage for the day-of reminder returns `sent`.
SendDay(p, sent) ==
    /\ tpc[p] = "sendDay"
    /\ LET m == [tmeeting[p] EXCEPT !.flags = DayFlags(sent, @)]
       IN  Goto(p, AfterDay(m, tnow[p], sent), m, tnow[p], sent,
                toptAtSend[p] # "unread")
    /\ sentCount' = IF sent
                    THEN [sentCount EXCEPT ![tmeeting[p].createdAt]["day"] = Bump(@)]
                    ELSE sentCount
    /\ missed' = IF sent THEN NoMiss ELSE "failed"
    /\ UNCHANGED <<clock, tickDue, saves, meetingStore, optOutStore, everSet,
                   meetingTtl>>
    /\ UNCHANGED nonSchedVars

\* sendTextMessage for the lead-time reminder returns `sent`.
SendBefore(p, sent) ==
    /\ tpc[p] = "sendBefore"
    /\ LET m == [tmeeting[p] EXCEPT !.flags = BeforeFlags(sent, @)]
           updated == tupdated[p] \/ sent
       IN  Goto(p, IF updated THEN "set" ELSE "idle", m, tnow[p], updated, TRUE)
    /\ sentCount' = IF sent
                    THEN [sentCount EXCEPT ![tmeeting[p].createdAt]["before"] = Bump(@)]
                    ELSE sentCount
    /\ UNCHANGED <<clock, tickDue, saves, meetingStore, optOutStore, everSet,
                   meetingTtl, missed>>
    /\ UNCHANGED nonSchedVars

\* redis.set(key, JSON.stringify(meeting)) answers, or throws into the
\* catch of checkMeetings' loop. SET without KEEPTTL drops the key's expiry.
WriteBack(p, ok) ==
    /\ tpc[p] = "set"
    /\ meetingTtl' = IF ok THEN FALSE ELSE meetingTtl
    /\ IF ok
       THEN /\ meetingStore' = tmeeting[p]
            /\ everSet' =
                 [day |-> tmeeting[p].flags.sentDayReminder
                            \/ (meetingStore.createdAt = tmeeting[p].createdAt /\ everSet["day"]),
                  before |-> tmeeting[p].flags.sentBeforeReminder
                            \/ (meetingStore.createdAt = tmeeting[p].createdAt /\ everSet["before"])]
       ELSE UNCHANGED <<meetingStore, everSet>>
    /\ Goto(p, "idle", NoMeeting, 0, FALSE, TRUE)
    /\ UNCHANGED <<clock, tickDue, saves, optOutStore, sentCount, missed>>
    /\ UNCHANGED nonSchedVars

NextSched ==
    \/ Advance
    \/ \E d \in MeetingDates, t \in MeetingTimes : SaveMeeting(d, t)
    \/ SetOptOut
    \/ ClearOptOut
    \/ \E p \in Ticks : TickStart(p)
    \/ \E p \in Ticks, ok \in BOOLEAN : ListKeys(p, ok)
    \/ \E p \in Ticks, ok \in BOOLEAN : ReadMeeting(p, ok)
    \/ \E p \in Ticks, ok \in BOOLEAN : CheckOptOut(p, ok)
    \/ \E p \in Ticks, sent \in BOOLEAN : SendDay(p, sent)
    \/ \E p \in Ticks, sent \in BOOLEAN : SendBefore(p, sent)
    \/ \E p \in Ticks, ok \in BOOLEAN : WriteBack(p, ok)

SpecSched == Init /\ [][NextSched]_vars

(***************************************************************************)
(* The scheduler on a stored meeting of a subscribed user, each tick over  *)
(* before the next minute begins, and every answer of the store and of the *)
(* send given at the latest in the minute in which the window closes       *)
(***************************************************************************)
InitStoredMeeting ==
    /\ InitSchedWith(StoredMeeting)
    /\ InitBuf /\ InitHist(TRUE) /\ InitRead /\ InitIn /\ InitDedup /\ InitQuiet

\* `now` is the last minute of the day-of window of m.
DayWindowCloses(m, now) ==
    diffInMinutes(now, parseTimeToDate(reminderDayOfMeetingTime, m.date))
        = reminderWindowMinutes

\* `now` is the last minute of the lead-time window of m.
BeforeWindowCloses(m, now) ==
    diffInMinutes(parseTimeToDate(m.time, m.date), now)
        = reminderMinutesBefore - reminderWindowMinutes

\* A Redis call of the tick may fail, but not in a minute that closes a window.
StoreAnswers(ok) ==
    ok \/ ~(DayWindowCloses(meetingStore, clock) \/ BeforeWindowCloses(meetingStore, clock))

\* The next minute begins when the tick of this one is over.
RemindAdvance == (\A p \in Ticks : tpc[p] = "idle") /\ Advance

RemindListKeys(p, ok) == StoreAnswers(ok) /\ ListKeys(p, ok)

RemindReadMeeting(p, ok) == StoreAnswers(ok) /\ ReadMeeting(p, ok)

RemindSendDay(p, sent) ==
    /\ sent \/ ~DayWindowCloses(tmeeting[p], tnow[p])
    /\ SendDay(p, sent)

RemindSendBefore(p, sent) ==
    /\ sent \/ ~BeforeWindowCloses(tmeeting[p], tnow[p])
    /\ SendBefore(p, sent)

NextRemind ==
    \/ RemindAdvance
    \/ \E p \in Ticks : TickStart(p)
    \/ \E p \in Ticks, ok \in BOOLEAN : RemindListKeys(p, ok)
    \/ \E p \in Ticks, ok \in BOOLEAN : RemindReadMeeting(p, ok)
    \/ \E p \in Ticks, ok \in BOOLEAN : CheckOptOut(p, ok)
    \/ \E p \in Ticks, sent \in BOOLEAN : RemindSendDay(p, sent)
    \/ \E p \in Ticks, sent \in BOOLEAN : RemindSendBefore(p, sent)
    \/ \E p \in Ticks, ok \in BOOLEAN : WriteBack(p, ok)

\* setInterval keeps firing and every awaited call of a tick returns.
SpecRemind == InitStoredMeeting /\ [][NextRemind]_vars /\ WF_vars(NextRemind)

(***************************************************************************)
(* The scheduler next to DELETE /calendar/meeting/:phone                   *)
(***************************************************************************)
\* deleteMeeting: redis.del(key) answers, or throws and is logged.
DeleteMeeting(ok) ==
    /\ meetingStore.exists
    /\ IF ok
       THEN /\ meetingStore' = NoMeeting
            /\ everSet' = [t \in Triggers |-> FALSE]
            /\ meetingTtl' = FALSE
       ELSE UNCHANGED <<meetingStore, everSet, meetingTtl>>
    /\ UNCHANGED <<clock, tickDue, saves, optOutStore, tpc, tmeeting, tnow, tupdated,
                   sentCount, treadAfter, toptAtSend, missed, tsendAfter>>
    /\ UNCHANGED nonSchedVars

NextCalendar ==
    \/ RemindAdvance
    \/ \E ok \in BOOLEAN : DeleteMeeting(ok)
    \/ \E p \in Ticks : TickStart(p)
    \/ \E p \in Ticks, ok \in BOOLEAN : ListKeys(p, ok)
    \/ \E p \in Ticks, ok \in BOOLEAN : ReadMeeting(p, ok)
    \/ \E p \in Ticks, ok \in BOOLEAN : CheckOptOut(p, ok)
    \/ \E p \in Ticks, sent \in BOOLEAN : SendDay(p, sent)
    \/ \E p \in Ticks, sent \in BOOLEAN : SendBefore(p, sent)
    \/ \E p \in Ticks, ok \in BOOLEAN : WriteBack(p, ok)

SpecCalendar == InitStoredMeeting /\ [][NextCalendar]_vars

(***************************************************************************)
(* checkMeetings over several stored keys: the for loop and its two        *)
(* try/catch blocks, one action per await                                  *)
(***************************************************************************)
nonLoopVars == <<schedVars, bufVars, histVars, readVars, inVars, dedupVars, sendVars,
                 turnVars, detectVars, gateVars, failVars>>

\* How redis.get(key) followed by JSON.parse can end.
GetOutcomes == {"value", "missing", "throws", "malformed"}

\* Mutant: an error of one iteration leaves the loop.
AfterItemAborts(queue, result) == IF result = "error" THEN <<>> ELSE Tail(queue)

\* The keys left to visit once an iteration has ended: `continue`, the end of
\* the body and the inner catch all go on with the next key.
AfterItem(queue, result) == Tail(queue)

\* The iteration of the first key of the queue has ended with this result.
ItemEnds(result) ==
    /\ kdone' = [kdone EXCEPT ![Head(kqueue)] = result]
    /\ kqueue' = AfterItem(kqueue, result)
    /\ IF kqueue' = <<>>
       THEN /\ kpc' = "idle"
            /\ klog' = Append(klog, "ended")
       ELSE /\ kpc' = "get"
            /\ klog' = klog

\* The setInterval callback (or the call at start) runs checkMeetings().
LoopTick ==
    /\ kpc = "idle"
    /\ Len(klog) < MaxLoopTicks
    /\ kpc' = "keys"
    /\ kqueue' = <<>>
    /\ kdone' = [k \in MeetingKeys |-> "none"]
    /\ klog' = klog
    /\ UNCHANGED nonLoopVars

\* await redis.keys("meeting:*"): the stored keys, none, or an error that the
\* outer catch logs.
LoopKeys(outcome) ==
    /\ kpc = "keys"
    /\ IF outcome = "keys"
       THEN /\ kqueue' = StoredKeys
            /\ kpc' = "get"
            /\ klog' = klog
       ELSE /\ kqueue' = <<>>
            /\ kpc' = "idle"
            /\ klog' = Append(klog, IF outcome = "none" THEN "nokeys" ELSE "failed")
    /\ UNCHANGED kdone
    /\ UNCHANGED nonLoopVars

\* await redis.get(key) and JSON.parse(data) of one iteration.
LoopGet(outcome) ==
    /\ kpc = "get"
    /\ IF outcome = "value"
       THEN /\ kpc' = "process"
            /\ UNCHANGED <<kqueue, kdone, klog>>
       ELSE ItemEnds(IF outcome = "missing" THEN "skipped" ELSE "error")
    /\ UNCHANGED nonLoopVars

\* await processMeeting(key, meeting) of one iteration returns or throws.
LoopProcess(ok) ==
    /\ kpc = "process"
    /\ ItemEnds(IF ok THEN "processed" ELSE "error")
    /\ UNCHANGED nonLoopVars

NextLoop ==
    \/ LoopTick
    \/ \E outcome \in {"keys", "none", "throws"} : LoopKeys(outcome)
    \/ \E outcome \in GetOutcomes : LoopGet(outcome)
    \/ \E ok \in BOOLEAN : LoopProcess(ok)

SpecLoop == Init /\ [][NextLoop]_vars

(***************************************************************************)
(* Message buffer (buffer/bufferManager): Map<phone, {messages, timer}>    *)
(***************************************************************************)
\* Mutant: every admit starts a timer.
TimersAfterAdmitAlways(u) == bufTimers[u] + 1

\* admit: a timer is started only when none is running for the user.
TimersAfterAdmit(u) == IF bufEntry[u] THEN bufTimers[u] ELSE bufTimers[u] + 1

\* Mutant: every admit re-creates the entry's queue.
QueueBeforeAppendFresh(u) == <<>>

\* admit: the queue the item is appended to (a new entry starts empty).
QueueBeforeAppend(u) == IF bufEntry[u] THEN bufQueue[u] ELSE <<>>

\* timer expiry: the part of the queue handed to the consumer.
Detached(u) == bufQueue[u]

\* Mutant: the flushed entry is not cleared.
QueueAfterFlushKept(u) == bufQueue[u]

\* timer expiry: what is left in the Map for the user.
QueueAfterFlush(u) == <<>>

\* processMessage ends with addMessageToBuffer(normalized): timer check and
\* queue append in one step, no await between them.
AdmitBuf(u) ==
    /\ nextItem <= MaxAdmits
    /\ nextItem' = nextItem + 1
    /\ bufEntry' = [bufEntry EXCEPT ![u] = TRUE]
    /\ bufTimers' = [bufTimers EXCEPT ![u] = TimersAfterAdmit(u)]
    /\ bufWindows' = [bufWindows EXCEPT ![u] = IF bufEntry[u] THEN @ ELSE @ + 1]
    /\ bufQueue' = [bufQueue EXCEPT ![u] = Append(QueueBeforeAppend(u), nextItem)]
    /\ admitLog' = [admitLog EXCEPT ![u] =
                      Append(@, [id |-> nextItem,
                                 window |-> IF bufEntry[u] THEN bufWindows[u]
                                            ELSE bufWindows[u] + 1,
                                 duringFlush |-> flushing[u] > 0])]
    /\ UNCHANGED <<batches, flushing>>

Admit(u) == AdmitBuf(u) /\ UNCHANGED nonBufVars

\* The debounce timer fires: the queue is detached and handed to
\* flushConversation, and the user's entry is cleared.
TimerFire(u) ==
    /\ bufTimers[u] > 0
    /\ bufTimers' = [bufTimers EXCEPT ![u] = @ - 1]
    /\ IF bufEntry[u]
       THEN /\ batches' = [batches EXCEPT ![u] = Append(@, Detached(u))]
            /\ flushing' = [flushing EXCEPT ![u] = @ + 1]
            /\ bufQueue' = [bufQueue EXCEPT ![u] = QueueAfterFlush(u)]
            /\ bufEntry' = [bufEntry EXCEPT ![u] = QueueAfterFlush(u) # <<>>]
       ELSE UNCHANGED <<batches, flushing, bufQueue, bufEntry>>
    /\ UNCHANGED <<bufWindows, admitLog, nextItem>>
    /\ UNCHANGED nonBufVars

\* flushConversation returns.
FlushDone(u) ==
    /\ flushing[u] > 0
    /\ flushing' = [flushing EXCEPT ![u] = @ - 1]
    /\ UNCHANGED <<bufEntry, bufQueue, bufTimers, bufWindows, admitLog, nextItem,
                   batches>>
    /\ UNCHANGED nonBufVars

NextBuf ==
    \/ \E u \in Users : Admit(u)
    \/ \E u \in Users : TimerFire(u)
    \/ \E u \in Users : FlushDone(u)

SpecBuf == Init /\ [][NextBuf]_vars

(***************************************************************************)
(* Conversation history (conversation/historyManager.ts) and the meeting   *)
(* note of the calendar route (calendar/routes.ts)                         *)
(***************************************************************************)
\* Mutant: the trim keeps the head and drops the tail.
TrimKeepsHead(history) ==
    IF Len(history) > maxHistoryMessages
    THEN SubSeq(history, 1, maxHistoryMessages)
    ELSE history

\* history.slice(toRemove) / history.splice(0, toRemove)
Trim(history) ==
    IF Len(history) > maxHistoryMessages
    THEN SubSeq(history, Len(history) - maxHistoryMessages + 1, Len(history))
    ELSE history

\* const ttlSeconds = config.redisTtlDays * 24 * 60 * 60
FullTtl == "full"

\* await redis.ttl(chatKey)
RemainingTtl == redisChat.ttl

\* What getHistory returns when redis.get answers.
RedisHistory == IF redisChat.exists THEN redisChat.msgs ELSE <<>>

\* What getHistory returns from its catch, or without a client.
MemHistory == IF memChat.exists THEN memChat.msgs ELSE <<>>

\* Mutant: getHistory has no catch, the Redis error reaches the caller.
GetHistoryRethrows(ok) ==
    [raised |-> redisEnabled /\ ~ok,
     history |-> IF redisEnabled /\ ok THEN RedisHistory
                 ELSE IF redisEnabled THEN <<>> ELSE MemHistory]

\* getHistory: the parsed Redis value, or [] without one; the fallback map's
\* entry, or [], when redis.get or JSON.parse throws or there is no client.
GetHistory(ok) ==
    [raised |-> FALSE,
     history |-> IF redisEnabled /\ ok THEN RedisHistory ELSE MemHistory]

\* addToHistory's in-memory branch: get or create, push, splice.
FallbackAppend(msg) == [exists |-> TRUE, msgs |-> Trim(Append(MemHistory, msg))]

\* The messages a flush passes to addToHistory: the batch, then the reply.
TurnMessages(n) ==
    [i \in 1..(n + 1) |->
        [role |-> IF i <= n THEN "user" ELSE "assistant", id |-> nextMsg + i - 1]]

\* The flush is done with one addToHistory call.
Appended(msg) ==
    /\ appended' = Append(appended, msg)
    /\ fqueue' = Tail(fqueue)
    /\ fpc' = IF Tail(fqueue) = <<>> THEN "deliver" ELSE "append"
    /\ flocal' = <<>>
    /\ falias' = FALSE

\* The buffer hands a batch of n messages to flushConversation, which runs
\* up to `await getHistory`.
StartTurn(n) ==
    /\ fpc = "idle"
    /\ turns < MaxTurns
    /\ turns' = turns + 1
    /\ fqueue' = TurnMessages(n)
    /\ nextMsg' = nextMsg + n + 1
    /\ fpc' = "read"
    /\ turnReadFrom' = "none"
    /\ turnLanded' = {}
    /\ UNCHANGED <<redisEnabled, redisChat, memChat, flocal, falias, mpc, mlocal,
                   mttl, notes, overwrote, appended, clean>>
    /\ UNCHANGED nonHistVars

\* getHistory of the flush answers: from Redis, or from the fallback map when
\* there is no client or redis.get throws.
TurnRead(ok) ==
    /\ fpc = "read"
    /\ turnReadFrom' = IF redisEnabled /\ ok THEN "redis" ELSE "mem"
    /\ clean' = (clean /\ (ok \/ ~redisEnabled))
    /\ fpc' = "ai"
    /\ UNCHANGED <<redisEnabled, redisChat, memChat, fqueue, flocal, falias, turns,
                   nextMsg, mpc, mlocal, mttl, notes, turnLanded, overwrote, appended>>
    /\ UNCHANGED nonHistVars

\* Mutant: the batch is recorded although the AI gave no response.
AfterAskRecordsAnyway(answered) == "append"

\* if (!response) { send the apology; return }
AfterAsk(answered) == IF answered THEN "append" ELSE "fallback"

\* askOpenAI answers; without a response the flush goes on to send the
\* apology, with one it starts the first addToHistory.
AskAI(answered) ==
    /\ fpc = "ai"
    /\ fpc' = AfterAsk(answered)
    /\ fqueue' = IF AfterAsk(answered) = "append" THEN fqueue ELSE <<>>
    /\ UNCHANGED <<redisEnabled, redisChat, memChat, flocal, falias, turns, nextMsg,
                   mpc, mlocal, mttl, notes, turnReadFrom, turnLanded, overwrote,
                   appended, clean>>
    /\ UNCHANGED nonHistVars

\* addToHistory up to `await redis.setex`: getHistory answers, the message is
\* pushed onto what it returned and the result is trimmed by slice. Without
\* a client the in-memory branch runs at once.
AddGet(ok) ==
    /\ fpc = "append"
    /\ LET msg == Head(fqueue)
       IN  IF ~redisEnabled
           THEN /\ memChat' = FallbackAppend(msg)
                /\ turnLanded' = turnLanded \cup {"mem"}
                /\ Appended(msg)
                /\ UNCHANGED clean
           ELSE /\ fpc' = "setex"
                /\ flocal' = Trim(Append(GetHistory(ok).history, msg))
                /\ falias' = ~ok
                \* getHistory's catch returns the Map's own array: push mutates it
                /\ memChat' = IF ~ok /\ memChat.exists
                              THEN [memChat EXCEPT !.msgs = Append(@, msg)]
                              ELSE memChat
                /\ clean' = (clean /\ ok)
                /\ UNCHANGED <<fqueue, turnLanded, appended>>
    /\ UNCHANGED <<redisEnabled, redisChat, turns, nextMsg, mpc, mlocal, mttl, notes,
                   turnReadFrom, overwrote>>
    /\ UNCHANGED nonHistVars

\* redis.setex(key, ttlSeconds, history) answers, or throws into the
\* in-memory branch.
AddSet(ok) ==
    /\ fpc = "setex"
    /\ IF ok
       THEN /\ redisChat' = [exists |-> TRUE, msgs |-> flocal, ttl |-> FullTtl]
            /\ turnLanded' = turnLanded \cup {"redis"}
            /\ overwrote' = (overwrote \/ (falias /\ redisChat.exists))
            /\ UNCHANGED <<memChat, clean>>
       ELSE /\ memChat' = FallbackAppend(Head(fqueue))
            /\ turnLanded' = turnLanded \cup {"mem"}
            /\ clean' = FALSE
            /\ UNCHANGED <<redisChat, overwrote>>
    /\ Appended(Head(fqueue))
    /\ UNCHANGED <<redisEnabled, turns, nextMsg, mpc, mlocal, mttl, notes, turnReadFrom>>
    /\ UNCHANGED nonHistVars

\* Mutant: a reply that could not be delivered is taken out of the history.
ChatAfterDeliveryRolledBack(sent) ==
    IF sent \/ ~redisChat.exists THEN redisChat
    ELSE [redisChat EXCEPT !.msgs = SubSeq(@, 1, Len(@) - 1)]

\* The stored conversation after the reply was handed to sendTextMessage:
\* nothing after the last addToHistory touches it.
ChatAfterDelivery(sent) == redisChat

\* sendTextMessage of the reply returns `sent`; the flush logs and returns.
Deliver(sent) ==
    /\ fpc = "deliver"
    /\ fpc' = "idle"
    /\ redisChat' = ChatAfterDelivery(sent)
    /\ UNCHANGED <<redisEnabled, memChat, fqueue, flocal, falias, turns, nextMsg,
                   mpc, mlocal, mttl, notes, turnReadFrom, turnLanded, overwrote,
                   appended, clean>>
    /\ UNCHANGED nonHistVars

\* sendTextMessage of the apology returns; the flush returns.
SendFallback(sent) ==
    /\ fpc = "fallback"
    /\ fpc' = "idle"
    /\ UNCHANGED <<redisEnabled, redisChat, memChat, fqueue, flocal, falias, turns,
                   nextMsg, mpc, mlocal, mttl, notes, turnReadFrom, turnLanded,
                   overwrote, appended, clean>>
    /\ UNCHANGED nonHistVars

\* Time passes: the chat key's TTL runs down, and a key that has used up
\* its TTL expires.
TimePasses(expires) ==
    /\ redisChat.exists
    /\ redisChat' = IF expires /\ redisChat.ttl = "partial"
                    THEN NoChat
                    ELSE [redisChat EXCEPT !.ttl = "partial"]
    /\ redisChat' # redisChat
    /\ clean' = (clean /\ redisChat'.exists)
    /\ UNCHANGED <<redisEnabled, memChat, fpc, fqueue, flocal, falias, turns, nextMsg,
                   mpc, mlocal, mttl, notes, turnReadFrom, turnLanded, overwrote,
                   appended>>
    /\ UNCHANGED nonHistVars

\* POST /calendar/meeting saved a meeting (one of MeetingIds) and calls
\* addMeetingToHistory, which runs up to `await redis.get(chatKey)`.
NoteStart ==
    /\ mpc = "idle"
    /\ notes + 1 \in MeetingIds
    /\ notes' = notes + 1
    /\ mpc' = IF redisEnabled THEN "get" ELSE "idle"
    /\ UNCHANGED <<redisEnabled, redisChat, memChat, fpc, fqueue, flocal, falias,
                   turns, nextMsg, mlocal, mttl, turnReadFrom, turnLanded, overwrote,
                   appended, clean>>
    /\ UNCHANGED nonHistVars

\* redis.get answers: without a history the note is skipped, else the system
\* message is pushed onto the parsed copy.
NoteGet(ok) ==
    /\ mpc = "get"
    /\ IF ok /\ redisChat.exists
       THEN /\ mlocal' = Append(redisChat.msgs, [role |-> "system", id |-> nextMsg])
            /\ nextMsg' = nextMsg + 1
            /\ mpc' = "ttl"
       ELSE /\ mpc' = "idle"
            /\ UNCHANGED <<mlocal, nextMsg>>
    /\ UNCHANGED <<redisEnabled, redisChat, memChat, fpc, fqueue, flocal, falias,
                   turns, mttl, notes, turnReadFrom, turnLanded, overwrote, appended,
                   clean>>
    /\ UNCHANGED nonHistVars

\* redis.ttl answers with the key's remaining TTL (negative without a key).
NoteTtl(ok) ==
    /\ mpc = "ttl"
    /\ IF ok /\ redisChat.exists
       THEN /\ mttl' = RemainingTtl
            /\ mpc' = "setex"
            /\ UNCHANGED mlocal
       ELSE /\ mttl' = "none"
            /\ mlocal' = <<>>
            /\ mpc' = "idle"
    /\ UNCHANGED <<redisEnabled, redisChat, memChat, fpc, fqueue, flocal, falias,
                   turns, nextMsg, notes, turnReadFrom, turnLanded, overwrote,
                   appended, clean>>
    /\ UNCHANGED nonHistVars

\* redis.setex(chatKey, ttlSeconds, history) answers.
NoteSet(ok) ==
    /\ mpc = "setex"
    /\ IF ok
       THEN /\ redisChat' = [exists |-> TRUE, msgs |-> mlocal, ttl |-> mttl]
            /\ clean' = FALSE
       ELSE UNCHANGED <<redisChat, clean>>
    /\ mpc' = "idle"
    /\ mlocal' = <<>>
    /\ mttl' = "none"
    /\ UNCHANGED <<redisEnabled, memChat, fpc, fqueue, flocal, falias, turns, nextMsg,
                   notes, turnReadFrom, turnLanded, overwrote, appended>>
    /\ UNCHANGED nonHistVars

NextHist ==
    \/ \E n \in BatchSizes : StartTurn(n)
    \/ \E ok \in BOOLEAN : TurnRead(ok)
    \/ \E answered \in BOOLEAN : AskAI(answered)
    \/ \E ok \in BOOLEAN : AddGet(ok)
    \/ \E ok \in BOOLEAN : AddSet(ok)
    \/ \E sent \in BOOLEAN : Deliver(sent)
    \/ \E sent \in BOOLEAN : SendFallback(sent)
    \/ \E expires \in BOOLEAN : TimePasses(expires)
    \/ NoteStart
    \/ \E ok \in BOOLEAN : NoteGet(ok)
    \/ \E ok \in BOOLEAN : NoteTtl(ok)
    \/ \E ok \in BOOLEAN : NoteSet(ok)

InitAnyStore ==
    /\ InitSched /\ InitBuf /\ InitRead /\ InitIn /\ InitDedup /\ InitQuiet
    /\ \E enabled \in BOOLEAN : InitHist(enabled)

SpecHist == InitAnyStore /\ [][NextHist]_vars

(***************************************************************************)
(* getHistory called on its own, over every content the two stores can     *)
(* have: absent, or 1 to N+1 messages (the meeting note and the aliased    *)
(* fallback array can leave N+1).                                          *)
(***************************************************************************)
StoredMessages == {[role |-> "user", id |-> 1], [role |-> "assistant", id |-> 2]}

StoredHistories ==
    UNION {[1..n -> StoredMessages] : n \in 1..(maxHistoryMessages + 1)}

StoredChats ==
    {NoChat} \cup {[exists |-> TRUE, msgs |-> h, ttl |-> FullTtl] : h \in StoredHistories}

StoredMems == {NoMem} \cup {[exists |-> TRUE, msgs |-> h] : h \in StoredHistories}

InitStores ==
    /\ InitSched /\ InitBuf /\ InitRead /\ InitIn /\ InitDedup /\ InitQuiet
    /\ \E enabled \in BOOLEAN :
          \E chat \in (IF enabled THEN StoredChats ELSE {NoChat}), mem \in StoredMems :
              InitHistWith(enabled, chat, mem)

\* A caller awaits getHistory(phone); redis.get answers or throws.
GetHistoryCall(ok) ==
    /\ lastRead' = [called |-> TRUE,
                    failed |-> redisEnabled /\ ~ok,
                    raised |-> GetHistory(ok).raised,
                    history |-> GetHistory(ok).history]
    /\ UNCHANGED nonReadVars

NextRead == \E ok \in BOOLEAN : GetHistoryCall(ok)

SpecRead == InitStores /\ [][NextRead]_vars

(***************************************************************************)
(* One flush on its own, on a conversation that already has content        *)
(***************************************************************************)
\* Messages of earlier turns.
PriorMessages == {[role |-> "user", id |-> 0], [role |-> "assistant", id |-> 0]}

PriorHistories == UNION {[1..n -> PriorMessages] : n \in 0..maxHistoryMessages}

PriorChats ==
    {NoChat} \cup {[exists |-> TRUE, msgs |-> h, ttl |-> FullTtl] :
                      h \in PriorHistories \ {<<>>}}

PriorMems == {NoMem} \cup {[exists |-> TRUE, msgs |-> h] : h \in PriorHistories \ {<<>>}}

InitPrior ==
    /\ InitSched /\ InitBuf /\ InitRead /\ InitIn /\ InitDedup /\ InitQuiet
    /\ \E enabled \in BOOLEAN :
          \E chat \in (IF enabled THEN PriorChats ELSE {NoChat}), mem \in PriorMems :
              InitHistWith(enabled, chat, mem)

NextFlush ==
    \/ \E n \in BatchSizes : StartTurn(n)
    \/ \E ok \in BOOLEAN : TurnRead(ok)
    \/ \E answered \in BOOLEAN : AskAI(answered)
    \/ \E ok \in BOOLEAN : AddGet(ok)
    \/ \E ok \in BOOLEAN : AddSet(ok)
    \/ \E sent \in BOOLEAN : Deliver(sent)
    \/ \E sent \in BOOLEAN : SendFallback(sent)

SpecFlush == InitPrior /\ [][NextFlush]_vars

(***************************************************************************)
(* Inbound pipeline (webhook handler): processMessage, one action per      *)
(* suspension point                                                        *)
(***************************************************************************)
\* Normal processing: audio and image content is decrypted and analysed
\* first, anything else goes to the buffer at once.
NormalProcessing(msg) == IF msg.media THEN "media" ELSE "admit"

\* Step 2 of processMessage: only a message with text is examined.
OptOutStep(msg) == IF msg.text THEN "detect" ELSE NormalProcessing(msg)

\* Mutant: an opted-out sender is not re-engaged.
AfterOptedOutCheckNoClear(opted, msg) == OptOutStep(msg)

\* Step 1 of processMessage: an opted-out sender is re-engaged first.
AfterOptedOutCheck(opted, msg) == IF opted THEN "clear" ELSE OptOutStep(msg)

\* Mutant: the confidence is not looked at.
IsOptOutRequestAnyConfidence(det) == det.isOptOut

\* optOutDetection.isOptOut && optOutDetection.confidence !== "low"
IsOptOutRequest(det) == det.isOptOut /\ det.confidence # "low"

\* Mutant: no return after the confirmation.
AfterConfirmationFallsThrough(msg) == NormalProcessing(msg)

\* After the confirmation processMessage returns.
AfterConfirmation(msg) == "done"

\* processMessage goes on to `nxt`; addMessageToBuffer runs in the same step
\* when nothing is left to await.
Proceed(m, nxt) ==
    IF nxt = "admit"
    THEN /\ AdmitBuf(Sender)
         /\ iitem' = [iitem EXCEPT ![m] = nextItem]
         /\ ipc' = [ipc EXCEPT ![m] = "done"]
    ELSE /\ ipc' = [ipc EXCEPT ![m] = nxt]
         /\ UNCHANGED <<bufVars, iitem>>

\* processWebhook hands a message to processMessage, which runs up to
\* `await isOptedOut`.
Arrive(m, text, media) ==
    /\ ipc[m] = "new"
    /\ imsg' = [imsg EXCEPT ![m] = [text |-> text, media |-> media]]
    /\ ipc' = [ipc EXCEPT ![m] = "check"]
    /\ UNCHANGED <<ifound, icleared, idet, isetCalls, iacks, iitem>>
    /\ UNCHANGED <<optOutStore, bufVars, nonInVars>>

\* isOptedOut answers (false when the read throws).
OptCheck(m, ok) ==
    /\ ipc[m] = "check"
    /\ ifound' = [ifound EXCEPT ![m] = IsOptedOut(ok)]
    /\ Proceed(m, AfterOptedOutCheck(IsOptedOut(ok), imsg[m]))
    /\ UNCHANGED <<imsg, icleared, idet, isetCalls, iacks>>
    /\ UNCHANGED <<optOutStore, nonInVars>>

\* clearOptOut: redis.del answers, or throws and is logged.
Clear(m, ok) ==
    /\ ipc[m] = "clear"
    /\ optOutStore' = IF ok THEN FALSE ELSE optOutStore
    /\ icleared' = [icleared EXCEPT ![m] = IF ok THEN "deleted" ELSE "failed"]
    /\ Proceed(m, OptOutStep(imsg[m]))
    /\ UNCHANGED <<imsg, ifound, idet, isetCalls, iacks>>
    /\ UNCHANGED nonInVars

\* detectOptOut answers, from the AI or from the keyword fallback.
Detect(m, isOptOut, confidence) ==
    /\ ipc[m] = "detect"
    /\ LET det == [ran |-> TRUE, isOptOut |-> isOptOut, confidence |-> confidence]
       IN  /\ idet' = [idet EXCEPT ![m] = det]
           /\ Proceed(m, IF IsOptOutRequest(det) THEN "setopt"
                         ELSE NormalProcessing(imsg[m]))
    /\ UNCHANGED <<imsg, ifound, icleared, isetCalls, iacks>>
    /\ UNCHANGED <<optOutStore, nonInVars>>

\* setOptOut: redis.setex answers, or throws and is logged.
SetOpt(m, ok) ==
    /\ ipc[m] = "setopt"
    /\ isetCalls' = [isetCalls EXCEPT ![m] = Bump(@)]
    /\ optOutStore' = IF ok THEN TRUE ELSE optOutStore
    /\ ipc' = [ipc EXCEPT ![m] = "ack"]
    /\ UNCHANGED <<imsg, ifound, icleared, idet, iacks, iitem>>
    /\ UNCHANGED <<bufVars, nonInVars>>

\* sendTextMessage of the confirmation returns.
Ack(m, sent) ==
    /\ ipc[m] = "ack"
    /\ iacks' = [iacks EXCEPT ![m] = Bump(@)]
    /\ Proceed(m, AfterConfirmation(imsg[m]))
    /\ UNCHANGED <<imsg, ifound, icleared, idet, isetCalls>>
    /\ UNCHANGED <<optOutStore, nonInVars>>

\* decryptMedia and the transcription or image analysis answer: the message
\* goes to the buffer, or an apology is sent instead.
Media(m, ok) ==
    /\ ipc[m] = "media"
    /\ Proceed(m, IF ok THEN "admit" ELSE "apology")
    /\ UNCHANGED <<imsg, ifound, icleared, idet, isetCalls, iacks>>
    /\ UNCHANGED <<optOutStore, nonInVars>>

\* sendTextMessage of the apology returns.
Apology(m, sent) ==
    /\ ipc[m] = "apology"
    /\ ipc' = [ipc EXCEPT ![m] = "done"]
    /\ UNCHANGED <<imsg, ifound, icleared, idet, isetCalls, iacks, iitem>>
    /\ UNCHANGED <<optOutStore, bufVars, nonInVars>>

NextInbound ==
    \/ \E m \in Msgs, text \in BOOLEAN, media \in BOOLEAN : Arrive(m, text, media)
    \/ \E m \in Msgs, ok \in BOOLEAN : OptCheck(m, ok)
    \/ \E m \in Msgs, ok \in BOOLEAN : Clear(m, ok)
    \/ \E m \in Msgs, isOptOut \in BOOLEAN, confidence \in Confidences :
          Detect(m, isOptOut, confidence)
    \/ \E m \in Msgs, ok \in BOOLEAN : SetOpt(m, ok)
    \/ \E m \in Msgs, sent \in BOOLEAN : Ack(m, sent)
    \/ \E m \in Msgs, ok \in BOOLEAN : Media(m, ok)
    \/ \E m \in Msgs, sent \in BOOLEAN : Apology(m, sent)

SpecInbound == Init /\ [][NextInbound]_vars

(***************************************************************************)
(* What reaches one user: the inbound pipeline with its buffer, the reply  *)
(* of flushConversation and the confirmation of POST /calendar/meeting     *)
(***************************************************************************)
\* The messages the webhook received before m (m1 is received first).
Earlier(m) == IF m = "m2" THEN {"m1"} ELSE {}

\* A send to the user, with the opt-out record at the moment it is issued.
Sending(kind) == [kind |-> kind, optedOut |-> optOutStore]

\* The webhook receives the messages one after the other; each processWebhook
\* call runs on its own from then on.
ArriveInOrder(m, text, media) ==
    /\ \A e \in Earlier(m) : ipc[e] # "new"
    /\ Arrive(m, text, media)

\* flushConversation of a detached batch sends its reply (or the apology when
\* the AI gave none) and returns; it reads no opt-out record.
FlushReply(u) ==
    /\ flushing[u] > 0
    /\ flushing' = [flushing EXCEPT ![u] = @ - 1]
    /\ outbox' = outbox \cup {Sending("reply")}
    /\ UNCHANGED <<bufEntry, bufQueue, bufTimers, bufWindows, admitLog, nextItem,
                   batches>>
    /\ UNCHANGED <<schedVars, histVars, readVars, inVars, dedupVars, sendVars,
                   turnVars, detectVars, failVars, loopVars>>

\* POST /calendar/meeting has saved a meeting: sendMeetingConfirmation sends
\* the confirmation; it reads no opt-out record.
SendMeetingConfirmation ==
    /\ \A e \in outbox : e.kind # "confirmation"
    /\ outbox' = outbox \cup {Sending("confirmation")}
    /\ UNCHANGED <<schedVars, bufVars, histVars, readVars, inVars, dedupVars,
                   sendVars, turnVars, detectVars, failVars, loopVars>>

NextPipeline ==
    \/ \E m \in Msgs, text \in BOOLEAN, media \in BOOLEAN : ArriveInOrder(m, text, media)
    \/ \E m \in Msgs, ok \in BOOLEAN : OptCheck(m, ok)
    \/ \E m \in Msgs, ok \in BOOLEAN : Clear(m, ok)
    \/ \E m \in Msgs, isOptOut \in BOOLEAN, confidence \in Confidences :
          Detect(m, isOptOut, confidence)
    \/ \E m \in Msgs, ok \in BOOLEAN : SetOpt(m, ok)
    \/ \E m \in Msgs, sent \in BOOLEAN : Ack(m, sent)
    \/ \E m \in Msgs, ok \in BOOLEAN : Media(m, ok)
    \/ \E m \in Msgs, sent \in BOOLEAN : Apology(m, sent)
    \/ \E u \in {Sender} : TimerFire(u)
    \/ \E u \in {Sender} : FlushReply(u)
    \/ SendMeetingConfirmation

SpecPipeline == Init /\ [][NextPipeline]_vars

(***************************************************************************)
(* Webhook deduplication (processWebhook): the Set of processed ids, its   *)
(* per-id setTimeout deletion, the size check and the hourly sweep         *)
(***************************************************************************)
\* Mutant: the Set is cleared only once it is over the maximum.
CleanupNeededOver(size) == size > MAX_PROCESSED_MESSAGES

\* cleanupProcessedMessages: currentSize >= MAX_PROCESSED_MESSAGES
CleanupNeeded(size) == size >= MAX_PROCESSED_MESSAGES

\* The Set after cleanupProcessedMessages().
AfterCleanup == IF CleanupNeeded(Cardinality(processedMessages)) THEN {} ELSE processedMessages

\* processedMessages.clear() ran: every id let through before can pass again.
ClearedAll == [id \in MessageIds |-> TRUE]

\* processWebhook for a message event with this id, up to `await
\* processMessage`: a known id is dropped, a new one is recorded after the
\* size check and its deletion is scheduled.
AdmitOnce(id) ==
    /\ dcalls < MaxWebhooks
    /\ dcalls' = dcalls + 1
    /\ dcall' = [called |-> TRUE, id |-> id,
                 admitted |-> id \notin processedMessages,
                 prev |-> dlastAdmit[id], at |-> dnow,
                 cleared |-> dclearedSince[id],
                 sizeBefore |-> Cardinality(processedMessages),
                 sizeAfter |-> IF id \in processedMessages
                               THEN Cardinality(processedMessages)
                               ELSE Cardinality(AfterCleanup \cup {id})]
    /\ IF id \in processedMessages
       THEN UNCHANGED <<processedMessages, deleteTimers, dlastAdmit, dclearedSince>>
       ELSE /\ processedMessages' = AfterCleanup \cup {id}
            /\ deleteTimers' = deleteTimers \cup {[id |-> id, due |-> dnow + MESSAGE_CACHE_TTL]}
            /\ dlastAdmit' = [dlastAdmit EXCEPT ![id] = dnow]
            /\ dclearedSince' =
                 [(IF AfterCleanup = processedMessages THEN dclearedSince ELSE ClearedAll)
                     EXCEPT ![id] = FALSE]
    /\ UNCHANGED <<dnow, sweepAt>>
    /\ UNCHANGED nonDedupVars

\* A setTimeout callback runs: processedMessages.delete(messageId).
DeleteTimerFires(t) ==
    /\ t \in deleteTimers
    /\ t.due <= dnow
    /\ deleteTimers' = deleteTimers \ {t}
    /\ processedMessages' = processedMessages \ {t.id}
    /\ UNCHANGED <<dnow, sweepAt, dlastAdmit, dclearedSince, dcall, dcalls>>
    /\ UNCHANGED nonDedupVars

\* The hourly setInterval callback runs: a non-empty Set is cleared.
Sweep ==
    /\ sweepAt = dnow
    /\ sweepAt' = sweepAt + SweepInterval
    /\ IF Cardinality(processedMessages) > 0
       THEN /\ processedMessages' = {}
            /\ dclearedSince' = ClearedAll
       ELSE UNCHANGED <<processedMessages, dclearedSince>>
    /\ UNCHANGED <<dnow, deleteTimers, dlastAdmit, dcall, dcalls>>
    /\ UNCHANGED nonDedupVars

\* 30 s pass; the timers due by now have run.
DedupTimePasses ==
    /\ dnow < MaxDedupTime
    /\ sweepAt > dnow
    /\ \A t \in deleteTimers : t.due > dnow
    /\ dnow' = dnow + 1
    /\ UNCHANGED <<processedMessages, deleteTimers, sweepAt, dlastAdmit, dclearedSince,
                   dcall, dcalls>>
    /\ UNCHANGED nonDedupVars

NextDedup ==
    \/ \E id \in MessageIds : AdmitOnce(id)
    \/ \E id \in MessageIds, due \in 0..(MaxDedupTime + MESSAGE_CACHE_TTL) :
          DeleteTimerFires([id |-> id, due |-> due])
    \/ Sweep
    \/ DedupTimePasses

InitSweepAnywhere ==
    /\ InitSched /\ InitBuf /\ InitHist(TRUE) /\ InitRead /\ InitIn /\ InitDedup
    /\ InitSend /\ InitTurn /\ InitDetect /\ InitGate /\ InitFail /\ InitLoop

SpecDedup == InitSweepAnywhere /\ [][NextDedup]_vars

\* The processing of the id let through at this time has thrown.
Failure(id, at) == [id |-> id, at |-> at]

\* processMessage throws for the id let through last: the catch of
\* processWebhook logs the error; the Set and the timers stay as they are.
ProcessThrows(id) ==
    /\ dcall.called /\ dcall.admitted /\ dcall.id = id
    /\ Failure(id, dcall.at) \notin dfailed
    /\ dfailed' = dfailed \cup {Failure(id, dcall.at)}
    /\ UNCHANGED dedupVars
    /\ UNCHANGED <<schedVars, bufVars, histVars, readVars, inVars, sendVars, turnVars,
                   detectVars, gateVars, loopVars>>

NextRedeliver ==
    \/ \E id \in MessageIds : AdmitOnce(id)
    \/ \E id \in MessageIds : ProcessThrows(id)
    \/ \E id \in MessageIds, due \in 0..(MaxDedupTime + MESSAGE_CACHE_TTL) :
          DeleteTimerFires([id |-> id, due |-> due])
    \/ Sweep
    \/ DedupTimePasses

SpecRedeliver == InitSweepAnywhere /\ [][NextRedeliver]_vars

(***************************************************************************)
(* One outbound send (wa/sendMessage.ts): sendTextMessage and              *)
(* sendImageMessage, one action per suspension point                       *)
(***************************************************************************)
\* Mutant: one retry more than MAX_RETRIES.
MayRetryOneMore(outcome, count) == outcome = "429" /\ count <= MAX_RETRIES

\* error.response?.status === 429 && retryCount < MAX_RETRIES
MayRetry(outcome, count) == outcome = "429" /\ count < MAX_RETRIES

\* Mutant: the backoff doubles.
RetryDelayDoubling(count) == RETRY_DELAY_MS * (2 ^ count)

\* const delay = RETRY_DELAY_MS * (retryCount + 1)
RetryDelay(count) == RETRY_DELAY_MS * (count + 1)

\* Mutant: every thrown error is retried.
AfterPostRetriesErrors(outcome, count) ==
    IF outcome \in {"429", "error"} /\ count < MAX_RETRIES THEN "backoff" ELSE "done"

\* Where the invocation goes once axios.post has answered or thrown.
AfterPost(outcome, count) == IF MayRetry(outcome, count) THEN "backoff" ELSE "done"

\* What the invocation returns when it does not retry.
Returned(outcome) == IF outcome = "success" THEN "true" ELSE "false"

Awaited(ev, ms, outcome) == [ev |-> ev, ms |-> ms, outcome |-> outcome]

\* A caller awaits sendTextMessage or sendImageMessage (retryCount = 0),
\* which runs up to `await addHumanDelay()`.
SendStart(kind) ==
    /\ spc = "idle"
    /\ spc' = "delay"
    /\ skind' = kind
    /\ UNCHANGED <<retryCount, slog, sresult>>
    /\ UNCHANGED nonSendVars

\* addHumanDelay has waited d ms; the invocation goes on to axios.post.
AddHumanDelay(d) ==
    /\ spc = "delay"
    /\ slog' = Append(slog, Awaited("human", d, "none"))
    /\ spc' = "post"
    /\ UNCHANGED <<skind, retryCount, sresult>>
    /\ UNCHANGED nonSendVars

\* axios.post answers or throws: the invocation returns true or false, or
\* goes to the backoff wait.
Post(outcome) ==
    /\ spc = "post"
    /\ slog' = Append(slog, Awaited("post", 0, outcome))
    /\ spc' = AfterPost(outcome, retryCount)
    /\ sresult' = IF AfterPost(outcome, retryCount) = "done" THEN Returned(outcome)
                  ELSE sresult
    /\ UNCHANGED <<skind, retryCount>>
    /\ UNCHANGED nonSendVars

\* The backoff setTimeout resolves; the function calls itself with
\* retryCount + 1 and runs up to `await addHumanDelay()`.
Backoff ==
    /\ spc = "backoff"
    /\ slog' = Append(slog, Awaited("backoff", RetryDelay(retryCount), "none"))
    /\ retryCount' = retryCount + 1
    /\ spc' = "delay"
    /\ UNCHANGED <<skind, sresult>>
    /\ UNCHANGED nonSendVars

NextSend ==
    \/ \E kind \in SendKinds : SendStart(kind)
    \/ \E d \in HumanDelays : AddHumanDelay(d)
    \/ \E outcome \in Outcomes : Post(outcome)
    \/ Backoff

SpecSend == Init /\ [][NextSend]_vars

\* Every await of the send resolves: the delays are timers and axios.post
\* has a 30 s timeout.
SpecSendFair == SpecSend /\ WF_vars(NextSend)

(***************************************************************************)
(* flushConversation with the customer profile (buildPromptMessages,       *)
(* getOrCreateCustomerInfo) and the reply, one action per suspension       *)
(* point; the conversation is kept as empty or non-empty per store         *)
(***************************************************************************)
\* getOrCreateCustomerInfo after getCustomerInfo answered: an existing
\* profile is returned; a new one is made only on a first message whose
\* sender has a name.
AfterProfileRead(existing, isFirstMessage, named) ==
    IF existing THEN "ai"
    ELSE IF isFirstMessage /\ named THEN "translate" ELSE "ai"

\* getCustomerInfo: the stored profile, null when there is none or the read
\* throws.
GetCustomerInfo(ok) == ok /\ profileStore

\* The flush goes to `nxt`.
FlushGoto(f, nxt) == qpc' = [qpc EXCEPT ![f] = nxt]

\* The buffer hands a batch to flushConversation, which runs up to `await
\* getHistory`.
FlushBegin(f) ==
    /\ qpc[f] \in {"idle", "done"}
    /\ FlushGoto(f, "history")
    /\ qhistEmpty' = [qhistEmpty EXCEPT ![f] = FALSE]
    /\ qanswered' = [qanswered EXCEPT ![f] = FALSE]
    /\ qfail' = [qfail EXCEPT ![f] = "no"]
    /\ qsent' = [qsent EXCEPT ![f] = "none"]
    /\ UNCHANGED <<profileStore, profileWrites, qchat>>
    /\ UNCHANGED nonTurnVars

\* getHistory answers, from Redis or (redis.get threw) from the fallback
\* map; buildPromptMessages runs up to `await getCustomerInfo`.
FlushHistory(f, ok) ==
    /\ qpc[f] = "history"
    /\ qhistEmpty' = [qhistEmpty EXCEPT ![f] = ~(IF ok THEN qchat.redis ELSE qchat.mem)]
    /\ FlushGoto(f, "profile")
    /\ UNCHANGED <<profileStore, profileWrites, qchat, qanswered, qfail, qsent>>
    /\ UNCHANGED nonTurnVars

\* getCustomerInfo answers.
FlushProfile(f, ok, named) ==
    /\ qpc[f] = "profile"
    /\ FlushGoto(f, AfterProfileRead(GetCustomerInfo(ok), qhistEmpty[f], named))
    /\ UNCHANGED <<profileStore, profileWrites, qchat, qhistEmpty, qanswered, qfail, qsent>>
    /\ UNCHANGED nonTurnVars

\* translateNameAndDetectGender answers (it catches its own errors).
FlushTranslate(f) ==
    /\ qpc[f] = "translate"
    /\ FlushGoto(f, "save")
    /\ UNCHANGED <<profileStore, profileWrites, qchat, qhistEmpty, qanswered, qfail, qsent>>
    /\ UNCHANGED nonTurnVars

\* saveCustomerInfo: redis.setex answers, or throws and is logged.
FlushSaveProfile(f, ok) ==
    /\ qpc[f] = "save"
    /\ profileStore' = (profileStore \/ ok)
    /\ profileWrites' = IF ok THEN Bump(profileWrites) ELSE profileWrites
    /\ FlushGoto(f, "ai")
    /\ UNCHANGED <<qchat, qhistEmpty, qanswered, qfail, qsent>>
    /\ UNCHANGED nonTurnVars

\* askOpenAI answers: a response, or null (error, timeout, empty content).
FlushAsk(f, answered) ==
    /\ qpc[f] = "ai"
    /\ qanswered' = [qanswered EXCEPT ![f] = answered]
    /\ qfail' = [qfail EXCEPT ![f] = IF answered THEN "no" ELSE "noanswer"]
    /\ FlushGoto(f, IF answered THEN "append" ELSE "fallback")
    /\ UNCHANGED <<profileStore, profileWrites, qchat, qhistEmpty, qsent>>
    /\ UNCHANGED nonTurnVars

\* sendTextMessage of the fallback text returns; the flush returns.
FlushFallback(f, sent) ==
    /\ qpc[f] = "fallback"
    /\ qsent' = [qsent EXCEPT ![f] = "fallback"]
    /\ FlushGoto(f, "done")
    /\ UNCHANGED <<profileStore, profileWrites, qchat, qhistEmpty, qanswered, qfail>>
    /\ UNCHANGED nonTurnVars

\* The batch and the response are added to the history, in Redis or (on a
\* Redis error) in the fallback map.
FlushAppend(f, ok) ==
    /\ qpc[f] = "append"
    /\ qchat' = IF ok THEN [qchat EXCEPT !.redis = TRUE] ELSE [qchat EXCEPT !.mem = TRUE]
    /\ FlushGoto(f, "deliver")
    /\ UNCHANGED <<profileStore, profileWrites, qhistEmpty, qanswered, qfail, qsent>>
    /\ UNCHANGED nonTurnVars

\* The response is sent (voice, text or images); the flush returns.
FlushDeliver(f, sent) ==
    /\ qpc[f] = "deliver"
    /\ qsent' = [qsent EXCEPT ![f] = "reply"]
    /\ FlushGoto(f, "done")
    /\ UNCHANGED <<profileStore, profileWrites, qchat, qhistEmpty, qanswered, qfail>>
    /\ UNCHANGED nonTurnVars

\* The catch of flushConversation logs the error and the flush returns.
AfterCatch == "done"

\* Something inside the try throws: the catch of flushConversation runs.
FlushInterrupted(f) ==
    /\ qpc[f] \in {"history", "profile", "translate", "save", "ai", "append", "deliver"}
    /\ qfail' = [qfail EXCEPT ![f] = "interrupted"]
    /\ FlushGoto(f, AfterCatch)
    /\ UNCHANGED <<profileStore, profileWrites, qchat, qhistEmpty, qanswered, qsent>>
    /\ UNCHANGED nonTurnVars

NextTurn ==
    \/ \E f \in Flushes : FlushBegin(f)
    \/ \E f \in Flushes, ok \in BOOLEAN : FlushHistory(f, ok)
    \/ \E f \in Flushes, ok \in BOOLEAN, named \in BOOLEAN : FlushProfile(f, ok, named)
    \/ \E f \in Flushes : FlushTranslate(f)
    \/ \E f \in Flushes, ok \in BOOLEAN : FlushSaveProfile(f, ok)
    \/ \E f \in Flushes, answered \in BOOLEAN : FlushAsk(f, answered)
    \/ \E f \in Flushes, sent \in BOOLEAN : FlushFallback(f, sent)
    \/ \E f \in Flushes, ok \in BOOLEAN : FlushAppend(f, ok)
    \/ \E f \in Flushes, sent \in BOOLEAN : FlushDeliver(f, sent)
    \/ \E f \in Flushes : FlushInterrupted(f)

SpecTurn == Init /\ [][NextTurn]_vars

(***************************************************************************)
(* Opt-out detection (optout/optOutDetector): detectOptOut and its keyword *)
(* fallback, on texts kept as sequences of characters                      *)
(***************************************************************************)
RECURSIVE Concat(_)
Concat(pieces) == IF pieces = <<>> THEN <<>> ELSE Head(pieces) \o Concat(Tail(pieces))

\* The message texts: up to MaxPieces pieces, one after the other.
Texts ==
    {Concat(ps) : ps \in UNION {[1..n -> {Pieces[k] : k \in DOMAIN Pieces}] : n \in 1..MaxPieces}}

\* String.prototype.toLowerCase, character by character
LowerChar(ch) ==
    CASE ch = "S" -> "s"
      [] ch = "T" -> "t"
      [] ch = "O" -> "o"
      [] ch = "P" -> "p"
      [] OTHER -> ch

toLowerCase(text) == [i \in 1..Len(text) |-> LowerChar(text[i])]

\* String.prototype.trim: the blanks at both ends are dropped.
RECURSIVE trimStart(_)
trimStart(text) ==
    IF text # <<>> /\ Head(text) = " " THEN trimStart(Tail(text)) ELSE text

RECURSIVE trimEnd(_)
trimEnd(text) ==
    IF text # <<>> /\ text[Len(text)] = " "
    THEN trimEnd(SubSeq(text, 1, Len(text) - 1))
    ELSE text

trim(text) == trimEnd(trimStart(text))

\* String.prototype.includes
includes(text, keyword) ==
    \E i \in 1..(Len(text) - Len(keyword) + 1) :
        SubSeq(text, i, i + Len(keyword) - 1) = keyword

Detection(isOptOut, confidence) == [isOptOut |-> isOptOut, confidence |-> confidence]

\* The loop over mediumConfidenceKeywords, then the final return.
RECURSIVE CheckMedium(_, _)
CheckMedium(lowerMessage, keywords) ==
    IF keywords = <<>> THEN Detection(FALSE, "high")
    ELSE IF includes(lowerMessage, Head(keywords)) /\ Len(lowerMessage) < MediumMaxLength
         THEN Detection(TRUE, "medium")
         ELSE CheckMedium(lowerMessage, Tail(keywords))

\* The loop over highConfidenceKeywords, then the medium loop.
RECURSIVE CheckHigh(_, _)
CheckHigh(lowerMessage, keywords) ==
    IF keywords = <<>> THEN CheckMedium(lowerMessage, mediumConfidenceKeywords)
    ELSE IF includes(lowerMessage, Head(keywords))
         THEN Detection(TRUE, "high")
         ELSE CheckHigh(lowerMessage, Tail(keywords))

\* Mutant: the length of the message is not looked at.
FallbackWithoutLengthTest(message) ==
    LET lowerMessage == trim(toLowerCase(message))
    IN  IF includes(lowerMessage, Pieces.stop) THEN Detection(TRUE, "high")
        ELSE IF includes(lowerMessage, Pieces.dai) THEN Detection(TRUE, "medium")
        ELSE Detection(FALSE, "high")

fallbackOptOutDetection(message) ==
    CheckHigh(trim(toLowerCase(message)), highConfidenceKeywords)

\* What askOpenAI can give detectOptOut: null (error, timeout, empty
\* content), a text JSON.parse throws on, or a detection object.
AiAnswers ==
    {[kind |-> k, isOptOut |-> FALSE, confidence |-> "low"] : k \in {"null", "garbage"}}
      \cup {[kind |-> "json", isOptOut |-> b, confidence |-> cf] :
                b \in BOOLEAN, cf \in Confidences}

\* Mutant: a failed AI call is answered "not an opt-out".
DetectOptOutDefaultsOnFailure(message, ai) ==
    [called |-> TRUE, raised |-> FALSE, fallback |-> FALSE,
     isOptOut |-> ai.kind = "json" /\ ai.isOptOut,
     confidence |-> IF ai.kind = "json" THEN ai.confidence ELSE "high"]

\* detectOptOut: the parsed answer of the AI; the keyword fallback from the
\* catch when there is no answer or JSON.parse throws.
detectOptOut(message, ai) ==
    IF ai.kind = "json"
    THEN [called |-> TRUE, raised |-> FALSE, fallback |-> FALSE,
          isOptOut |-> ai.isOptOut, confidence |-> ai.confidence]
    ELSE [called |-> TRUE, raised |-> FALSE, fallback |-> TRUE,
          isOptOut |-> fallbackOptOutDetection(message).isOptOut,
          confidence |-> fallbackOptOutDetection(message).confidence]

\* processMessage calls detectOptOut(messageText), which runs up to `await
\* askOpenAI`.
DetectCall(text) ==
    /\ opc = "idle"
    /\ otext' = text
    /\ opc' = "ask"
    /\ UNCHANGED <<oai, ores>>
    /\ UNCHANGED nonDetectVars

\* askOpenAI answers; detectOptOut returns.
DetectReturn(ai) ==
    /\ opc = "ask"
    /\ oai' = ai
    /\ ores' = detectOptOut(otext, ai)
    /\ opc' = "done"
    /\ UNCHANGED otext
    /\ UNCHANGED nonDetectVars

NextDetect ==
    \/ \E text \in Texts : DetectCall(text)
    \/ \E ai \in AiAnswers : DetectReturn(ai)

SpecDetect == Init /\ [][NextDetect]_vars

(***************************************************************************)
(* Reminder scheduler: properties                                          *)
(***************************************************************************)
\* The tick p completes a send in this step and the send succeeded.
DaySentBy(p) ==
    tpc[p] = "sendDay" /\ tpc'[p] # "sendDay" /\ tmeeting'[p].flags.sentDayReminder

BeforeSentBy(p) ==
    tpc[p] = "sendBefore" /\ tpc'[p] # "sendBefore" /\ tmeeting'[p].flags.sentBeforeReminder

\* C1: for every scheduled item and each of its two triggers, the reminder
\* is sent successfully at most once, whatever the interleaving of ticks and
\* the outcome of the store write that follows a send.
C1_AtMostOnce ==
    \A g \in MeetingIds : \A t \in Triggers : sentCount[g][t] <= 1

\* C2: once the stored flag of a trigger has been true, no tick that reads
\* the item afterwards sends that trigger's reminder again.
C2_NoResendOnceFlagged ==
    [][\A p \in Ticks :
          /\ DaySentBy(p) => ~treadAfter[p]["day"]
          /\ BeforeSentBy(p) => ~treadAfter[p]["before"]]_vars

\* C3: the stored flags of an item only ever change from false to true.
C3_StoredFlagsMonotonic ==
    [][(meetingStore.exists /\ meetingStore'.exists
          /\ meetingStore'.createdAt = meetingStore.createdAt)
        => /\ meetingStore.flags.sentDayReminder => meetingStore'.flags.sentDayReminder
           /\ meetingStore.flags.sentBeforeReminder
                 => meetingStore'.flags.sentBeforeReminder]_vars

\* C15: a user who is opted out at the moment a trigger's send is about to
\* start receives no reminder for that trigger, the lead-time reminder that
\* follows a day-of send in the same tick included (ticks whose opt-out read
\* threw are left aside: isOptedOut then answers "subscribed" by design).
C15_OptOutCheckedPerTrigger ==
    [][\A p \in Ticks : (DaySentBy(p) \/ BeforeSentBy(p)) => toptAtSend[p] # "yes"]_vars

\* C16: a tick that finds the item's user opted out sends nothing and leaves
\* the stored item as it is, so the skipped trigger can still fire in a later
\* tick of its window once the user is subscribed again.
C16_OptedOutSkipsUntouched ==
    [][\A p \in Ticks :
          (/\ tpc[p] = "optout" /\ tpc'[p] # "optout"
           /\ optOutStore /\ toptAtSend'[p] # "unread")
             => /\ tpc'[p] = "idle"
                /\ meetingStore' = meetingStore
                /\ meetingTtl' = meetingTtl
                /\ sentCount' = sentCount]_vars

C16_Witness ==
    \E p \in Ticks :
        /\ tpc[p] = "sendDay"
        /\ tsendAfter[p] = "optout"
        /\ toptAtSend[p] = "no"
        /\ ~meetingStore.flags.sentDayReminder

\* The day-of and lead-time windows, in minutes of the wall clock.
InDayWindow(m, now) ==
    /\ now \div (24 * 60) = m.date
    /\ now - (m.date * 24 * 60 + 9 * 60) \in -3..3

InBeforeWindow(m, now) ==
    (m.date * 24 * 60 + m.time) - now \in 42..45

\* C17: a send that returns failure leaves the trigger's flag false, in the
\* store and in whatever the tick writes afterwards, and a tick that comes
\* to the trigger inside the same window after the failure sends again.
C17_FailedSendRetried ==
    [][\A p \in Ticks :
          /\ (tpc[p] = "sendDay" /\ tpc'[p] # "sendDay" /\ missed' = "failed")
                => /\ meetingStore' = meetingStore
                   /\ tpc'[p] \in {"idle", "sendBefore"}
                   /\ ~tmeeting'[p].flags.sentDayReminder
          /\ (tpc[p] = "sendBefore" /\ SendBefore(p, FALSE))
                => /\ meetingStore' = meetingStore
                   /\ ~tmeeting'[p].flags.sentBeforeReminder
                   /\ tpc'[p] = "set" => tmeeting'[p].flags.sentDayReminder
          /\ (/\ tpc[p] = "optout" /\ tpc'[p] # "optout"
              /\ ~optOutStore
              /\ missed = "failed"
              /\ ~tmeeting[p].flags.sentDayReminder
              /\ InDayWindow(tmeeting[p], clock))
                => tpc'[p] = "sendDay" /\ tsendAfter'[p] = "failed"
          /\ (/\ tpc[p] = "sendDay" /\ tpc'[p] # "sendDay"
              /\ ~tmeeting[p].flags.sentBeforeReminder
              /\ InBeforeWindow(tmeeting[p], tnow[p]))
                => tpc'[p] = "sendBefore"]_vars

C17_Witness ==
    \E p \in Ticks :
        /\ tpc[p] = "sendDay"
        /\ tsendAfter[p] = "failed"
        /\ InDayWindow(tmeeting[p], tnow[p])
        /\ ~meetingStore.flags.sentDayReminder

\* C18: the store write that records a trigger's flag follows its successful
\* send at once: no other send and no other suspension point in between.
C18_WriteFollowsSend ==
    [][\A p \in Ticks : (DaySentBy(p) \/ BeforeSentBy(p)) => tpc'[p] = "set"]_vars

\* C19: the flag write-back keeps the item's expiry: a stored item always
\* carries the TTL it was saved with.
C19_WriteBackKeepsTtl == meetingStore.exists => meetingTtl

\* C20: with the user subscribed, the day-of send is attempted in a tick
\* exactly when the date in Israel is the item's date, now is within the
\* window of the target time and the day-of flag is false: with target 09:00
\* and window 3, at 09:02 and not at 09:04.
C20_DayOfAttemptedIffDue ==
    [][\A p \in Ticks :
          (tpc[p] = "optout" /\ tpc'[p] # "optout" /\ ~optOutStore)
             => /\ tpc'[p] = "sendDay"
                     <=> /\ InDayWindow(tmeeting[p], clock)
                         /\ ~tmeeting[p].flags.sentDayReminder
                /\ (clock = 9 * 60 + 2 /\ tmeeting[p].date = 0
                      /\ ~tmeeting[p].flags.sentDayReminder) => tpc'[p] = "sendDay"
                /\ clock = 9 * 60 + 4 => tpc'[p] # "sendDay"]_vars

C20_Witness ==
    \E p \in Ticks :
        /\ tpc[p] = "sendDay"
        /\ tnow[p] = 9 * 60 + 2
        /\ toptAtSend[p] = "no"

\* Signed minutes from `now` to the item's scheduled moment.
MinutesUntil(m, now) == (m.date * 24 * 60 + m.time) - now

\* C21: with the user subscribed, the lead-time send is attempted in a tick
\* exactly when the signed number of minutes from now to the item's moment is
\* in the inclusive range [lead - window, lead] and the lead-time flag is
\* false: with lead 45 and window 3, at 44 and at 42 minutes and not at 41 or
\* 46. The tick decides when the opt-out check answered, or when its day-of
\* send returned, with the `now` it took.
C21_LeadTimeAttemptedIffDue ==
    [][\A p \in Ticks :
          /\ (tpc[p] = "optout" /\ tpc'[p] \notin {"optout", "sendDay"} /\ ~optOutStore)
                => /\ tpc'[p] = "sendBefore"
                        <=> /\ InBeforeWindow(tmeeting[p], clock)
                            /\ ~tmeeting[p].flags.sentBeforeReminder
                   /\ (MinutesUntil(tmeeting[p], clock) \in {44, 42}
                         /\ ~tmeeting[p].flags.sentBeforeReminder)
                           => tpc'[p] = "sendBefore"
                   /\ MinutesUntil(tmeeting[p], clock) \in {41, 46}
                           => tpc'[p] # "sendBefore"
          /\ (tpc[p] = "sendDay" /\ tpc'[p] # "sendDay")
                => /\ tpc'[p] = "sendBefore"
                        <=> /\ InBeforeWindow(tmeeting[p], tnow[p])
                            /\ ~tmeeting[p].flags.sentBeforeReminder
                   /\ MinutesUntil(tmeeting[p], tnow[p]) \in {41, 46}
                           => tpc'[p] # "sendBefore"]_vars

C21_Witness ==
    \E p \in Ticks :
        /\ tpc[p] = "sendBefore"
        /\ MinutesUntil(tmeeting[p], tnow[p]) = 42
        /\ toptAtSend[p] = "no"
        /\ ~tupdated[p]

(***************************************************************************)
(* Message buffer: properties                                              *)
(***************************************************************************)
RECURSIVE Flatten(_)
Flatten(ss) == IF ss = <<>> THEN <<>> ELSE Head(ss) \o Flatten(Tail(ss))

InWindow(e, w) == e.window = w

\* The items a user admitted in window w, in arrival order.
WindowItems(u, w) ==
    LET RECURSIVE Pick(_)
        Pick(log) == IF log = <<>> THEN <<>>
                     ELSE IF InWindow(Head(log), w)
                          THEN <<Head(log).id>> \o Pick(Tail(log))
                          ELSE Pick(Tail(log))
    IN  Pick(admitLog[u])

Occurrences(x, seq) == Cardinality({i \in 1..Len(seq) : seq[i] = x})

\* C4: the admits of one window reach the consumer as exactly one batch that
\* holds all of them in arrival order, and an admit after the batch was
\* delivered starts a fresh window with its own timer and an empty queue.
C4_OneBatchPerWindow ==
    \A u \in Users :
        /\ \A w \in 1..Len(batches[u]) : batches[u][w] = WindowItems(u, w)
        /\ IF bufEntry[u]
           THEN /\ Len(batches[u]) = bufWindows[u] - 1
                /\ bufQueue[u] = WindowItems(u, bufWindows[u])
           ELSE /\ Len(batches[u]) = bufWindows[u]
                /\ bufQueue[u] = <<>>

C4_Witness ==
    \E u \in Users :
        /\ Len(batches[u]) >= 1
        /\ Len(batches[u][1]) >= 2
        /\ bufEntry[u]
        /\ bufWindows[u] = 2
        /\ Len(bufQueue[u]) = 1

\* C5: each user has at most one live debounce timer, and a timer is live
\* exactly while the user has a buffer entry.
C5_OneTimerPerUser ==
    \A u \in Users : bufTimers[u] = IF bufEntry[u] THEN 1 ELSE 0

C5_Witness ==
    \E u \in Users : bufEntry[u] /\ Len(bufQueue[u]) >= 2 /\ bufTimers[u] = 1

\* C6: every admitted item is in exactly one place: still queued under a
\* live timer, or handed to the consumer in exactly one batch, also when it
\* was admitted while an earlier batch of the user was being processed.
C6_DeliveredExactlyOnce ==
    \A u \in Users :
        \A i \in 1..Len(admitLog[u]) :
            LET id == admitLog[u][i].id
            IN  /\ Occurrences(id, Flatten(batches[u]) \o bufQueue[u]) = 1
                /\ Occurrences(id, bufQueue[u]) = 1 => bufEntry[u] /\ bufTimers[u] > 0

C6_Witness ==
    \E u \in Users :
        \E i \in 1..Len(admitLog[u]) :
            /\ admitLog[u][i].duringFlush
            /\ flushing[u] > 0
            /\ Len(batches[u]) >= 2
            /\ Occurrences(admitLog[u][i].id, batches[u][Len(batches[u])]) = 1

(***************************************************************************)
(* Conversation history: properties                                        *)
(***************************************************************************)
\* What a getHistory call that meets no Redis error returns now.
ReadResult == IF redisEnabled THEN RedisHistory ELSE MemHistory

\* The n most recent elements of seq, oldest first.
LastN(seq, n) ==
    LET k == IF Len(seq) < n THEN Len(seq) ELSE n
    IN  [i \in 1..k |-> seq[Len(seq) - k + i]]

C8_HistoryBounded == Len(redisChat.msgs) <= maxHistoryMessages

\* C9: every write of the chat key sets its TTL to the full configured
\* duration.
C9_WritesSetFullTtl ==
    [][(redisChat'.exists /\ redisChat'.msgs # redisChat.msgs)
          => redisChat'.ttl = FullTtl]_vars

\* C10: the store that served the read of a turn also receives every append
\* of the turn, and a history taken from the fallback never replaces the
\* persistent one.
C10_TurnUsesOneStore ==
    /\ turnReadFrom # "none" => turnLanded \subseteq {turnReadFrom}
    /\ ~overwrote

(***************************************************************************)
(* getHistory: properties                                                  *)
(***************************************************************************)
\* C11: getHistory never raises to its caller: it returns the empty sequence
\* when the user has no stored conversation, and on a Redis error whatever
\* the in-process fallback map holds for the user.
C11_ReadNeverRaises ==
    lastRead.called =>
        /\ ~lastRead.raised
        /\ lastRead.failed =>
              lastRead.history = (IF memChat.exists THEN memChat.msgs ELSE <<>>)
        /\ (redisEnabled /\ ~lastRead.failed /\ ~redisChat.exists) => lastRead.history = <<>>
        /\ (~redisEnabled /\ ~memChat.exists) => lastRead.history = <<>>

C11_Witness ==
    /\ lastRead.called
    /\ lastRead.failed
    /\ redisChat.exists
    /\ memChat.exists
    /\ lastRead.history = memChat.msgs
    /\ lastRead.history # redisChat.msgs

(***************************************************************************)
(* Inbound pipeline: properties                                            *)
(***************************************************************************)
\* C12: for a message whose sender is found opted out, the opt-out record is
\* deleted whatever the message holds, and before opt-out detection runs on
\* that message's text: the same message can re-engage and opt out again.
C12_ReengageBeforeDetect ==
    [][\A m \in Msgs :
          /\ (ipc[m] = "check" /\ ifound'[m]) => ipc'[m] = "clear"
          /\ (ipc[m] = "clear" /\ icleared'[m] = "deleted") => ~optOutStore'
          /\ ifound'[m] => (ipc'[m] = "clear" \/ icleared'[m] # "no")
          /\ (ifound'[m] /\ (ipc'[m] = "detect" \/ idet'[m].ran))
                => icleared'[m] # "no"]_vars

C12_Witness ==
    \E m \in Msgs :
        /\ ifound[m]
        /\ icleared[m] = "deleted"
        /\ idet[m].ran
        /\ isetCalls[m] = 1
        /\ ipc[m] = "done"
        /\ optOutStore

\* detect's answer asks for opt-out with confidence high or medium.
HighOrMedium(det) == det.ran /\ det.isOptOut /\ det.confidence \in {"high", "medium"}

\* C13: the opt-out record is written for a message exactly when detect
\* answered isOptOut with confidence high or medium on its text; an answer
\* of confidence low changes nothing, and a message without text is never
\* examined.
C13_OptOutIffConfident ==
    [][/\ (~optOutStore /\ optOutStore')
             => \E m \in Msgs : /\ ipc[m] = "setopt" /\ ipc'[m] = "ack"
                                /\ HighOrMedium(idet[m]) /\ imsg[m].text
       /\ \A m \in Msgs :
             /\ (ipc[m] = "detect" /\ idet'[m].ran /\ idet'[m].confidence = "low")
                   => optOutStore' = optOutStore /\ ipc'[m] # "setopt"
             /\ (ipc'[m] = "setopt" \/ isetCalls'[m] > 0) <=> HighOrMedium(idet'[m])
             /\ isetCalls'[m] <= 1
             /\ (ipc'[m] \in {"ack", "done"} /\ HighOrMedium(idet'[m]))
                   => isetCalls'[m] = 1
             /\ idet'[m].ran => imsg'[m].text
             /\ ~imsg'[m].text => isetCalls'[m] = 0]_vars

C13_Witness ==
    \E m, n \in Msgs :
        /\ idet[m].ran /\ idet[m].isOptOut /\ idet[m].confidence = "low"
        /\ iitem[m] > 0 /\ isetCalls[m] = 0
        /\ idet[n].ran /\ idet[n].isOptOut /\ idet[n].confidence = "medium"
        /\ isetCalls[n] = 1 /\ ipc[n] = "done"
        /\ optOutStore

\* C14: a message that triggers opt-out is not processed further: it never
\* becomes a buffer item, and exactly one acknowledgment is sent for it.
C14_OptOutShortCircuits ==
    \A m \in Msgs :
        IF HighOrMedium(idet[m])
        THEN /\ iitem[m] = 0
             /\ \A i \in 1..Len(admitLog[Sender]) : admitLog[Sender][i].id # iitem[m]
             /\ ipc[m] \in {"setopt", "ack", "done"}
             /\ iacks[m] = IF ipc[m] = "done" THEN 1 ELSE 0
        ELSE iacks[m] = 0

C14_Witness ==
    \E m, n \in Msgs :
        /\ HighOrMedium(idet[m]) /\ ipc[m] = "done" /\ iacks[m] = 1 /\ iitem[m] = 0
        /\ ipc[n] = "done" /\ iitem[n] > 0
        /\ Len(bufQueue[Sender]) = 1

(***************************************************************************)
(* Webhook deduplication: properties                                       *)
(***************************************************************************)
\* C22: between two calls that let the same id through, either the per-id
\* TTL has elapsed since the earlier one or the Set was cleared (size check
\* or hourly sweep) between them; in every other case the id is dropped.
C22_AdmittedOncePerTtl ==
    (dcall.called /\ dcall.admitted /\ dcall.prev # NoTime)
        => \/ dcall.at - dcall.prev >= MESSAGE_CACHE_TTL
           \/ dcall.cleared

\* C23: the Set never holds more ids than the maximum: a new id that comes
\* when the size has reached the maximum is added to the emptied Set.
C23_SetBounded ==
    /\ Cardinality(processedMessages) <= MAX_PROCESSED_MESSAGES
    /\ (dcall.called /\ dcall.admitted)
          => dcall.sizeAfter = IF dcall.sizeBefore >= MAX_PROCESSED_MESSAGES
                               THEN 1
                               ELSE dcall.sizeBefore + 1

C23_Witness ==
    /\ dcall.called /\ dcall.admitted
    /\ dcall.sizeBefore = MAX_PROCESSED_MESSAGES
    /\ processedMessages = {dcall.id}

(***************************************************************************)
(* Outbound send: properties                                               *)
(***************************************************************************)
\* The answers the POST attempts of the send got, in order.
Responses == SelectSeq(slog, LAMBDA e : e.ev = "post")

\* The backoff waits of the send, in order.
Backoffs == SelectSeq(slog, LAMBDA e : e.ev = "backoff")

AllRateLimited(resp) == \A i \in 1..Len(resp) : resp[i].outcome = "429"

\* C24: a send whose every attempt is answered 429 makes exactly
\* maxRetries + 1 attempts and returns failure; a send answered 429 and then
\* success within the retry budget returns success.
C24_RateLimitRetries ==
    spc = "done" =>
        /\ AllRateLimited(Responses)
              => Len(Responses) = 3 + 1 /\ sresult = "false"
        /\ (/\ Len(Responses) >= 2
            /\ AllRateLimited(SubSeq(Responses, 1, Len(Responses) - 1))
            /\ Responses[Len(Responses)].outcome = "success")
              => sresult = "true"

C24_Witness ==
    /\ spc = "done"
    /\ Len(Responses) = 4
    /\ AllRateLimited(SubSeq(Responses, 1, 3))
    /\ Responses[4].outcome = "success"
    /\ sresult = "true"

\* The send is over and went by the rules: only a 429 was followed by another
\* attempt, at most maxRetries + 1 attempts were made, and the boolean
\* returned says whether the last attempt succeeded.
EndedWell ==
    /\ spc = "done"
    /\ sresult \in {"true", "false"}
    /\ Len(Responses) \in 1..(3 + 1)
    /\ AllRateLimited(SubSeq(Responses, 1, Len(Responses) - 1))
    /\ sresult = "true" <=> Responses[Len(Responses)].outcome = "success"
    /\ slog[Len(slog)].ev = "post"

\* C25: every send ends, with a boolean: true at once on a success, false
\* with no further attempt on any failure other than 429, and after at most
\* maxRetries + 1 attempts.
C25_SendTerminates == (spc # "idle") ~> EndedWell

C25_Witness ==
    /\ EndedWell
    /\ Len(Responses) = 2
    /\ Responses[2].outcome = "error"
    /\ sresult = "false"
    /\ skind = "image"

\* C26: a randomized delay within the configured range is waited before
\* every attempt of a send, retries included, and the wait before retry
\* number k is baseDelay x k: 5 s, 10 s, 15 s.
C26_DelaysBeforeAttempts ==
    /\ \A i \in 1..Len(slog) :
          /\ slog[i].ev = "post"
                => /\ i > 1
                   /\ slog[i - 1].ev = "human"
                   /\ slog[i - 1].ms \in 1500..3000
          /\ slog[i].ev = "backoff"
                => /\ i > 1
                   /\ slog[i - 1].ev = "post"
                   /\ slog[i - 1].outcome = "429"
    /\ \A k \in 1..Len(Backoffs) : Backoffs[k].ms = 5000 * k
    /\ Len(Backoffs) <= 3
    /\ spc = "done" => Len(Backoffs) = Len(Responses) - 1

C26_Witness ==
    /\ spc = "done"
    /\ Len(Backoffs) = 3
    /\ Backoffs[3].ms = 15000
    /\ slog[Len(slog) - 1].ev = "human"
    /\ slog[Len(slog) - 2].ev = "backoff"

(***************************************************************************)
(* Customer profile and reply of a flush: properties                       *)
(***************************************************************************)
\* C27: the profile of a user is stored at most once: a stored profile is
\* never written again, also when two flushes of the user overlap or the
\* read of the existing profile fails.
C27_ProfileWrittenOnce == profileWrites <= 1

\* C28: a flush that could not produce a reply (the AI gave no response, or
\* an error interrupted it before there was one) has sent the fallback text
\* to the user by the time it ends.
C28_FallbackOnFailure ==
    \A f \in Flushes :
        (/\ qpc[f] = "done"
         /\ \/ qfail[f] = "noanswer"
            \/ qfail[f] = "interrupted" /\ ~qanswered[f])
            => qsent[f] = "fallback"

(***************************************************************************)
(* Opt-out detection: properties                                           *)
(***************************************************************************)
\* The text holds the keyword "stop" in any case, the keyword "dai".
HasHighKeyword(text) ==
    \E i \in 1..(Len(text) - 3) :
        /\ text[i] \in {"s", "S"} /\ text[i + 1] \in {"t", "T"}
        /\ text[i + 2] \in {"o", "O"} /\ text[i + 3] \in {"p", "P"}

HasMediumKeyword(text) ==
    \E i \in 1..(Len(text) - 2) : text[i] = "d" /\ text[i + 1] = "a" /\ text[i + 2] = "i"

\* The number of characters between the first and the last non-blank one.
TrimmedLength(text) ==
    LET solid == {i \in 1..Len(text) : text[i] # " "}
    IN  IF solid = {} THEN 0
        ELSE (CHOOSE i \in solid : \A j \in solid : j <= i)
               - (CHOOSE i \in solid : \A j \in solid : j >= i) + 1

\* What the claim says the keyword fallback answers on a text.
KeywordAnswer(text) ==
    IF HasHighKeyword(text) THEN [isOptOut |-> TRUE, confidence |-> "high"]
    ELSE IF HasMediumKeyword(text) /\ TrimmedLength(text) < 20
         THEN [isOptOut |-> TRUE, confidence |-> "medium"]
         ELSE [isOptOut |-> FALSE, confidence |-> "high"]

\* C29: detectOptOut never raises: when the AI call fails (error or no
\* answer, or an answer that cannot be parsed) it returns what the keyword
\* fallback gives on the same text, and the fallback is used in no other case.
C29_DetectFallsBack ==
    ores.called =>
        /\ ~ores.raised
        /\ ores.fallback <=> oai.kind \in {"null", "garbage"}
        /\ oai.kind \in {"null", "garbage"}
              => /\ ores.isOptOut = KeywordAnswer(otext).isOptOut
                 /\ ores.confidence = KeywordAnswer(otext).confidence
        /\ oai.kind = "json"
              => ores.isOptOut = oai.isOptOut /\ ores.confidence = oai.confidence

C29_Witness ==
    /\ ores.called
    /\ oai.kind = "garbage"
    /\ ores.fallback
    /\ ores.isOptOut /\ ores.confidence = "medium"

\* C30: the keyword fallback answers opt-out with confidence high when the
\* lower-cased text holds a high-confidence keyword; otherwise opt-out with
\* confidence medium when it holds a medium-confidence keyword and the
\* trimmed message is shorter than 20 characters; otherwise no opt-out with
\* confidence high. The high-confidence list is looked at first.
C30_KeywordFallback ==
    (ores.called /\ ores.fallback) =>
        LET high == HasHighKeyword(otext)
            medium == HasMediumKeyword(otext)
            short == TrimmedLength(otext) < 20
        IN  /\ high => ores.isOptOut /\ ores.confidence = "high"
            /\ (~high /\ medium /\ short) => ores.isOptOut /\ ores.confidence = "medium"
            /\ (~high /\ ~(medium /\ short)) => ~ores.isOptOut /\ ores.confidence = "high"

C30_Witness ==
    /\ ores.called /\ ores.fallback
    /\ HasMediumKeyword(otext)
    /\ ~HasHighKeyword(otext)
    /\ TrimmedLength(otext) = 20
    /\ Len(otext) = 20
    /\ ~ores.isOptOut

(***************************************************************************)
(* What reaches one user: properties                                       *)
(***************************************************************************)
\* C31: while the opt-out record of a user is present, nothing is sent to the
\* user besides the opt-out acknowledgment: no reply of a batch that was
\* pending or in flight, no meeting confirmation.
C31_NothingSentWhileOptedOut == \A e \in outbox : ~e.optedOut

(***************************************************************************)
(* The scheduler on a stored meeting: properties                           *)
(***************************************************************************)
\* The stored item is inside the window of the trigger with that flag false.
DueDay ==
    /\ meetingStore.exists
    /\ ~meetingStore.flags.sentDayReminder
    /\ InDayWindow(meetingStore, clock)

DueBefore ==
    /\ meetingStore.exists
    /\ ~meetingStore.flags.sentBeforeReminder
    /\ InBeforeWindow(meetingStore, clock)

Delivered(t) == \E g \in MeetingIds : sentCount[g][t] > 0

C33_WriteBackOnlyOntoItemRead ==
    [][\A p \in Ticks :
          WriteBack(p, TRUE)
             => /\ meetingStore.exists
                /\ meetingStore.createdAt = tmeeting[p].createdAt]_vars

(***************************************************************************)
(* addToHistory and the flush: properties                                  *)
(***************************************************************************)
\* C34: each addToHistory call leaves exactly one copy of its message in
\* exactly one of the two stores, whichever of its Redis calls fail.
C34_AppendOneCopyOneStore ==
    [][appended' # appended
          => LET msg == appended'[Len(appended')]
             IN  Occurrences(msg, RedisHistory') + Occurrences(msg, MemHistory') = 1]_vars

\* The stored conversation after a write is a tail of the one before it with
\* one message added.
KeepsStored ==
    /\ redisChat'.msgs # <<>>
    /\ \E k \in 0..Len(redisChat.msgs) :
          SubSeq(redisChat'.msgs, 1, Len(redisChat'.msgs) - 1)
             = SubSeq(redisChat.msgs, k + 1, Len(redisChat.msgs))

\* C35: when two appends to the conversation of a user overlap, none of the
\* two messages is lost: whoever writes the key (the store answering to both)
\* keeps what the key holds, up to the trim.
C35_OverlappingAppendsKept ==
    [][(/\ redisChat.exists /\ redisChat'.exists
        /\ redisChat'.msgs # redisChat.msgs
        /\ ~(fpc = "setex" /\ fpc' # "setex" /\ falias))
          => KeepsStored]_vars

C38_AdmittedInReceiveOrder ==
    \A m \in Msgs :
        \A e \in Earlier(m) :
            (iitem[e] # 0 /\ iitem[m] # 0) => iitem[e] < iitem[m]

(***************************************************************************)
(* Redelivery of an event whose processing failed: properties              *)
(***************************************************************************)
\* C39: the id is recorded in the step that tests it, before processing: a
\* call lets its id through iff the Set does not hold it and the Set holds it
\* afterwards, so of two deliveries handled one after the other the second is
\* dropped; a failure of the processing leaves the Set as it is, so the id
\* delivered again within its TTL (no clear since) is dropped.
C39_FailedEventStaysRecorded ==
    [][\A id \in MessageIds :
          /\ AdmitOnce(id)
                => /\ dcall'.admitted = (id \notin processedMessages)
                   /\ id \in processedMessages'
          /\ ProcessThrows(id) => UNCHANGED <<processedMessages, deleteTimers>>
          /\ (/\ AdmitOnce(id)
              /\ Failure(id, dlastAdmit[id]) \in dfailed
              /\ dnow - dlastAdmit[id] < MESSAGE_CACHE_TTL
              /\ ~dclearedSince[id])
                => ~dcall'.admitted]_vars

(***************************************************************************)
(* Errors in a scheduler tick: properties                                  *)
(***************************************************************************)
\* C40: an error while reading, parsing or processing one item of a tick
\* leaves the remaining items of the tick to be evaluated (a tick that got
\* its keys ends with every key visited), and a tick that fails as a whole
\* returns, so that the next tick runs.
C40_ErrorsStayLocal ==
    [][/\ \A k \in MeetingKeys :
             (kdone[k] = "none" /\ kdone'[k] = "error")
                => /\ kqueue' = Tail(kqueue)
                   /\ kqueue' # <<>> => (kpc' = "get" /\ klog' = klog)
       /\ (klog' # klog /\ klog'[Len(klog')] = "ended")
             => \A k \in MeetingKeys : kdone'[k] # "none"
       /\ (klog' # klog /\ klog'[Len(klog')] = "failed") => kpc' = "idle"
       /\ (kpc = "idle" /\ Len(klog) < MaxLoopTicks) => ENABLED LoopTick]_vars

C40_Witness ==
    /\ kpc = "idle"
    /\ klog = <<"failed", "ended">>
    /\ kdone[StoredKeys[1]] = "error"
    /\ kdone[StoredKeys[2]] = "processed"

====
